---------------------------- MODULE Spec2Model ----------------------------
(***************************************************************************)
(* Order status lifecycle of the orders API: the route handlers of the     *)
(* 5-state variant (create, PATCH, PUT, cancel, soft DELETE) over the      *)
(* Order model, with each handler split at its awaits: the load            *)
(* (Order.findOne) together with the synchronous code that follows it, and *)
(* the save (order.save()) together with the response.                     *)
(*                                                                         *)
(* JavaScript values are records tagged with their type; a string is a     *)
(* sequence of atoms, the atom " " being whitespace, so that trim() is     *)
(* computed; a status name is a string of one atom.  The other text        *)
(* fields of the handlers (customerName, phone, product, notes) follow the *)
(* same assign-then-validate-at-save path as quantity and are not carried. *)
(***************************************************************************)
EXTENDS Integers, Sequences, FiniteSets, TLC

VARIABLES db, req, clock, cachedDb, mongoUri, mongoose, server, process

vars == <<db, req, clock, cachedDb, mongoUri, mongoose, server, process>>

\* The process around the routes: the connection and the HTTP server
hostVars == <<cachedDb, mongoUri, mongoose, server, process>>

---------------------------------------------------------------------------
(* Bounds of the model *)

\* size of the space the generated orderId is drawn from
NumOrders == 1
\* request slots that may be in flight at once (Spec); SeqSpec uses slot 1
NumReqs == 2
\* values the wall clock (new Date()) takes
MaxClock == 3

OrderIds == 1..NumOrders
Procs == 1..NumReqs

---------------------------------------------------------------------------
(* JavaScript values *)

Undef == [t |-> "undefined"]
Null == [t |-> "null"]
Str(s) == [t |-> "string", v |-> s]
Num(n) == [t |-> "number", v |-> n]
Date(ms) == [t |-> "date", v |-> ms]

\* JavaScript truthiness, as used by `if (status)` and `a || b`
Truthy(x) ==
  CASE x.t = "string" -> x.v # <<>>
    [] x.t = "number" -> x.v # 0
    [] x.t = "date" -> TRUE
    [] OTHER -> FALSE

IsSpace(a) == a = " "

RECURSIVE TrimStart(_)
TrimStart(s) ==
  IF s = <<>> THEN <<>>
  ELSE IF IsSpace(Head(s)) THEN TrimStart(Tail(s)) ELSE s

RECURSIVE TrimEnd(_)
TrimEnd(s) ==
  IF s = <<>> THEN <<>>
  ELSE IF IsSpace(s[Len(s)]) THEN TrimEnd(SubSeq(s, 1, Len(s) - 1)) ELSE s

\* String.prototype.trim
Trim(s) == TrimEnd(TrimStart(s))

\* x?.trim(): undefined for undefined and null, the trimmed string otherwise
OptTrim(x) == IF x.t = "string" THEN Str(Trim(x.v)) ELSE Undef

\* a || b
OrElse(a, b) == IF Truthy(a) THEN a ELSE b

Range(s) == {s[i] : i \in DOMAIN s}

---------------------------------------------------------------------------
(* Order model *)

\* the string made of the single atom a
S(a) == <<a>>

Statuses ==
  {S("pending"), S("processing"), S("shipped"), S("delivered"), S("cancelled")}

QuantityMin == 1
QuantityMax == 1000

\* Document built by `new Order({... status: 'pending' ...})` with the schema defaults
NewOrder(id, quantity) ==
  [orderId |-> id,
   quantity |-> quantity,
   status |-> S("pending"),
   cancelledAt |-> Null,
   cancellationReason |-> Null,
   isDeleted |-> FALSE,
   version |-> 0]

Paths == {"quantity", "status", "cancelledAt", "cancellationReason", "isDeleted"}

\* Schema validators that run for a path at save
PathErrors(doc, path) ==
  CASE path = "quantity" ->
         IF doc.quantity < QuantityMin THEN {"Quantity must be at least 1"}
         ELSE IF doc.quantity > QuantityMax THEN {"Quantity cannot exceed 1000"}
         ELSE {}
    [] path = "status" ->
         IF doc.status \in Statuses THEN {} ELSE {"Invalid status value"}
    [] OTHER -> {}


\* Mongoose document in memory: the field values and the paths marked modified.
\* Assigning a path marks it modified only when the value differs.
Loaded(order) == [doc |-> order, mod |-> {}]

Set(m, path, val) ==
  [doc |-> [m.doc EXCEPT ![path] = val],
   mod |-> IF m.doc[path] = val THEN m.mod ELSE m.mod \cup {path}]

\* Validation errors raised by save(): the validators of the modified paths
ValidationErrors(m) == UNION {PathErrors(m.doc, p) : p \in m.mod}

\* The update save() sends: $set of the modified paths on the stored document.
\* The schema names a versionKey but does not enable optimisticConcurrency, so
\* the update carries no version condition and does not increment the version.
ApplyUpdate(stored, m) ==
  [f \in DOMAIN stored |-> IF f \in m.mod THEN m.doc[f] ELSE stored[f]]

---------------------------------------------------------------------------
(* Responses *)

NoData == [empty |-> TRUE]

Resp(code, success, message, data) ==
  [code |-> code, success |-> success, message |-> message, data |-> data]

\* Mutant: the 404 sent with success true
NotFound_Success == Resp(404, TRUE, "Order not found", NoData)

NotFound == Resp(404, FALSE, "Order not found", NoData)

\* process.env.NODE_ENV: unset, or one of the usual modes
NodeEnvs == {Undef} \cup {Str(S(mode)) : mode \in {"development", "production", "test"}}

\* An error passed to next(error): err.name, err.message ("" when it has
\* none), err.statusCode and err.code (0 when undefined), and err.errors, the
\* messages of the failed validators of a ValidationError
Error(name, message, statusCode, code) ==
  [name |-> name, message |-> message, statusCode |-> statusCode, code |-> code,
   errors |-> {}]

\* The error order.save() throws when validators fail
ValidationError(errors) ==
  [Error("ValidationError", "Order validation failed", 0, 0) EXCEPT !.errors = errors]

\* errorHandler, the global error handler: the status and the message by
\* the kind of error (the messages of a ValidationError joined; where one
\* path at most fails that is one message), then the message of a 500
\* replaced in production
errorHandler(err, env) ==
  LET initial == [statusCode |-> IF err.statusCode # 0 THEN err.statusCode ELSE 500,
                  message |-> IF err.message # "" THEN err.message
                              ELSE "Internal Server Error"]
      validation == IF err.name = "ValidationError"
                    THEN [statusCode |-> 400, message |-> CHOOSE e \in err.errors : TRUE]
                    ELSE initial
      duplicate == IF err.code = 11000
                   THEN [statusCode |-> 409,
                         message |-> "Duplicate entry - resource already exists"]
                   ELSE validation
      cast == IF err.name = "CastError"
              THEN [statusCode |-> 400, message |-> "Invalid ID format"]
              ELSE duplicate
      token == IF err.name = "JsonWebTokenError"
               THEN [statusCode |-> 401, message |-> "Invalid token"]
               ELSE IF err.name = "TokenExpiredError"
               THEN [statusCode |-> 401, message |-> "Token expired"]
               ELSE cast
      rate == IF err.name = "RateLimitError"
              THEN [statusCode |-> 429,
                    message |-> IF err.message # "" THEN err.message
                                ELSE "Too many requests"]
              ELSE token
  IN Resp(rate.statusCode, FALSE,
          IF env = Str(S("production")) /\ rate.statusCode = 500
          THEN "Internal Server Error" ELSE rate.message,
          NoData)

\* The answer to a ValidationError: 400 with the validators' message, in
\* every mode (only the message of a 500 depends on NODE_ENV)
ValidationFailure(errors) == errorHandler(ValidationError(errors), Undef)

\* The error middleware of the serverless app: the status of the error, the
\* message replaced in production whatever the status
errorMiddleware(err, env) ==
  Resp(IF err.statusCode # 0 THEN err.statusCode ELSE 500, FALSE,
       IF env = Str(S("production")) THEN "Internal server error" ELSE err.message,
       NoData)

\* The catch of the routes of the older router: 500 with error.message, in
\* every mode
routesCatch(err, env) == Resp(500, FALSE, err.message, NoData)

\* notFound's error for an unmatched route
NotFoundError == Error("Error", "Not Found - /api/unknown", 404, 0)

\* Errors that reach an error boundary: a lost database connection, an error
\* without a message, one thrown with status 500 or 503, a malformed JSON
\* body, an unmatched route, and the kinds errorHandler tells apart
ErrorInputs ==
  {Error("MongoNetworkError", "connect ECONNREFUSED 10.0.0.5:27017", 0, 0),
   Error("Error", "", 0, 0),
   Error("Error", "pool destroyed", 500, 0),
   Error("Error", "Service unavailable", 503, 0),
   Error("SyntaxError", "Unexpected token } in JSON", 400, 0),
   NotFoundError,
   ValidationError({"Quantity must be at least 1"}),
   Error("MongoServerError", "E11000 duplicate key error", 0, 11000),
   Error("CastError", "Cast to ObjectId failed", 0, 0),
   Error("JsonWebTokenError", "jwt malformed", 0, 0),
   Error("TokenExpiredError", "jwt expired", 0, 0),
   Error("RateLimitError", "", 0, 0)}

---------------------------------------------------------------------------
(* Status transitions *)

\* Mutant: the table of the 4-state variant (pending straight to shipped,
\* shipped not cancellable)
ALLOWED_TRANSITIONS_FourState(currentStatus) ==
  CASE currentStatus = S("pending") -> <<S("shipped"), S("cancelled")>>
    [] currentStatus = S("shipped") -> <<S("delivered")>>
    [] OTHER -> <<>>

\* Mutant: the table with a way back, a cancelled order reopened as pending
ALLOWED_TRANSITIONS_Reopen(currentStatus) ==
  CASE currentStatus = S("pending") -> <<S("processing"), S("cancelled")>>
    [] currentStatus = S("processing") -> <<S("shipped"), S("cancelled")>>
    [] currentStatus = S("shipped") -> <<S("delivered"), S("cancelled")>>
    [] currentStatus = S("cancelled") -> <<S("pending")>>
    [] OTHER -> <<>>

ALLOWED_TRANSITIONS(currentStatus) ==
  CASE currentStatus = S("pending") -> <<S("processing"), S("cancelled")>>
    [] currentStatus = S("processing") -> <<S("shipped"), S("cancelled")>>
    [] currentStatus = S("shipped") -> <<S("delivered"), S("cancelled")>>
    [] currentStatus = S("delivered") -> <<>>
    [] currentStatus = S("cancelled") -> <<>>
    [] OTHER -> <<>>

validateStatusTransition(currentStatus, newStatus) ==
  LET allowed == ALLOWED_TRANSITIONS(currentStatus) IN
  IF newStatus \notin Range(allowed)
  THEN [valid |-> FALSE, message |-> "Cannot transition"]
  ELSE [valid |-> TRUE]

\* The 400 response of a rejected transition
InvalidTransition(order, status, message) ==
  Resp(400, FALSE, message,
       [currentStatus |-> order.status,
        attemptedStatus |-> status,
        allowedTransitions |-> ALLOWED_TRANSITIONS(order.status)])

---------------------------------------------------------------------------
(* Handlers: the synchronous code between findOne and save.  Each yields   *)
(* either a response (ret) or the document to save.                        *)

Return(res) == [ret |-> TRUE, res |-> res]
ToSave(m) == [ret |-> FALSE, m |-> m]

\* Mutant: PATCH records the reason of a cancellation but not its time
PatchCancellation_NoTimestamp(m, status, cancellationReason, now) ==
  IF status = S("cancelled")
  THEN Set(m, "cancellationReason",
           OrElse(OptTrim(cancellationReason), Str(S("Cancelled by user"))))
  ELSE Set(Set(m, "cancelledAt", Null), "cancellationReason", Null)

\* PATCH /:orderId, cancellation handling
PatchCancellation(m, status, cancellationReason, now) ==
  IF status = S("cancelled")
  THEN Set(Set(m, "cancelledAt", Date(now)), "cancellationReason",
           OrElse(OptTrim(cancellationReason), Str(S("Cancelled by user"))))
  ELSE Set(Set(m, "cancelledAt", Null), "cancellationReason", Null)

\* Mutant: PATCH assigns an orderId sent in the payload
PatchFields_AssignsOrderId(m, body) ==
  LET m1 == IF body.quantity # Undef THEN Set(m, "quantity", body.quantity.v) ELSE m
  IN IF body.orderId # Undef THEN Set(m1, "orderId", body.orderId.v) ELSE m1

\* PATCH /:orderId, field updates
PatchFields(m, body) ==
  IF body.quantity # Undef THEN Set(m, "quantity", body.quantity.v) ELSE m

\* PATCH /:orderId
patch(order, body, now) ==
  IF Truthy(body.status)
  THEN LET transition == validateStatusTransition(order.status, body.status.v) IN
       IF ~transition.valid
       THEN Return(InvalidTransition(order, body.status.v, transition.message))
       ELSE ToSave(PatchFields(
              Set(PatchCancellation(Loaded(order), body.status.v,
                                    body.cancellationReason, now),
                  "status", body.status.v),
              body))
  ELSE ToSave(PatchFields(Loaded(order), body))

\* PUT /:orderId, cancellation handling
PutCancellation(m, status, now) ==
  IF status = S("cancelled")
  THEN Set(Set(m, "cancelledAt", Date(now)), "cancellationReason",
           Str(S("Cancelled during update")))
  ELSE Set(Set(m, "cancelledAt", Null), "cancellationReason", Null)

\* Mutant: PUT replaces an absent quantity by the schema default
PutFields_DefaultQuantity(m, body) ==
  LET m1 == Set(m, "quantity", IF Truthy(body.quantity) THEN body.quantity.v ELSE 1)
  IN IF Truthy(body.status) THEN Set(m1, "status", body.status.v) ELSE m1

\* PUT /:orderId, update all fields
PutFields(m, body) ==
  LET m1 == Set(m, "quantity",
                IF Truthy(body.quantity) THEN body.quantity.v ELSE m.doc.quantity)
  IN IF Truthy(body.status) THEN Set(m1, "status", body.status.v) ELSE m1

\* Mutant: PUT assigns the status with no transition check
put_Unchecked(order, body, now) ==
  ToSave(PutFields(Loaded(order), body))

\* PUT /:orderId
put(order, body, now) ==
  IF Truthy(body.status) /\ body.status.v # order.status
  THEN LET transition == validateStatusTransition(order.status, body.status.v) IN
       IF ~transition.valid
       THEN Return(InvalidTransition(order, body.status.v, transition.message))
       ELSE ToSave(PutFields(PutCancellation(Loaded(order), body.status.v, now), body))
  ELSE ToSave(PutFields(Loaded(order), body))

\* Mutant: a cancellation that also soft-deletes the order
PerformCancellation_Deletes(order, body, now) ==
  ToSave(Set(Set(Set(Set(Loaded(order), "status", S("cancelled")),
                     "cancelledAt", Date(now)),
                 "cancellationReason",
                 OrElse(OptTrim(body.reason), Str(S("Cancelled by customer")))),
             "isDeleted", TRUE))

\* The cancellation the cancel endpoint performs
PerformCancellation(order, body, now) ==
  ToSave(Set(Set(Set(Loaded(order), "status", S("cancelled")),
                 "cancelledAt", Date(now)),
             "cancellationReason",
             OrElse(OptTrim(body.reason), Str(S("Cancelled by customer")))))

\* Mutant: the cancel endpoint without its already-cancelled guard
cancel_NoCancelledGuard(order, body, now) ==
  IF order.status = S("delivered")
  THEN Return(Resp(400, FALSE, "Cannot cancel a delivered order", NoData))
  ELSE PerformCancellation(order, body, now)

\* Mutant: the cancel endpoint without its delivered guard
cancel_NoDeliveredGuard(order, body, now) ==
  IF order.status = S("cancelled")
  THEN Return(Resp(400, FALSE, "Order is already cancelled",
                   [orderId |-> order.orderId,
                    cancelledAt |-> order.cancelledAt,
                    cancellationReason |-> order.cancellationReason]))
  ELSE PerformCancellation(order, body, now)

\* POST /:orderId/cancel
cancel(order, body, now) ==
  IF order.status = S("cancelled")
  THEN Return(Resp(400, FALSE, "Order is already cancelled",
                   [orderId |-> order.orderId,
                    cancelledAt |-> order.cancelledAt,
                    cancellationReason |-> order.cancellationReason]))
  ELSE IF order.status = S("delivered")
  THEN Return(Resp(400, FALSE, "Cannot cancel a delivered order", NoData))
  ELSE PerformCancellation(order, body, now)

\* Mutant: a soft delete that also cancels the order
delete_Cancels(order) ==
  ToSave(Set(Set(Loaded(order), "isDeleted", TRUE), "status", S("cancelled")))

\* DELETE /:orderId between findOne and save: order.isDeleted = true
delete(order) == ToSave(Set(Loaded(order), "isDeleted", TRUE))

\* The success response of each handler, from the saved document
Success(op, doc) ==
  CASE op = "patch" -> Resp(200, TRUE, "Order updated successfully", doc)
    [] op = "put" -> Resp(200, TRUE, "Order updated successfully", doc)
    [] op = "cancel" ->
         Resp(200, TRUE, "Order cancelled successfully",
              [orderId |-> doc.orderId, status |-> doc.status,
               cancelledAt |-> doc.cancelledAt,
               cancellationReason |-> doc.cancellationReason])
    [] op = "delete" ->
         Resp(200, TRUE, "Order deleted successfully",
              [orderId |-> doc.orderId, isDeleted |-> doc.isDeleted])

---------------------------------------------------------------------------
(* Request payloads *)

StatusInputs == {Undef} \cup {Str(s) : s \in Statuses \cup {S("refunded")}}

ReasonInputs ==
  {Undef, Null, Str(<<" ">>), Str(<<" ", "too", " ", "late", " ">>)}

QuantityInputs == {Undef, Num(0), Num(3), Num(1001)}

\* A payload may carry an orderId, that of no stored order; no handler reads it
OrderIdInputs == {Undef, Num(NumOrders + 1)}

\* A cancellationReason is sent with a requested status of cancelled, the only
\* case in which a handler reads it, and then without a quantity
\* and without an orderId
UpdateBodies ==
  {b \in [status : StatusInputs, cancellationReason : ReasonInputs,
          quantity : QuantityInputs, orderId : OrderIdInputs] :
     b.cancellationReason # Undef =>
       b.status = Str(S("cancelled")) /\ b.quantity = Undef /\ b.orderId = Undef}

CancelBodies == [reason : ReasonInputs, orderId : OrderIdInputs]

\* The payloads of overlapping requests: a status, with or without a reason
OverlapUpdateBodies ==
  {b \in UpdateBodies :
     /\ b.quantity = Undef /\ b.orderId = Undef
     /\ b.cancellationReason \notin {Null, Str(<<" ">>)}}

OverlapCancelBodies ==
  {b \in CancelBodies : b.orderId = Undef /\ b.reason \notin {Null, Str(<<" ">>)}}

\* The payload of POST /; a status in it is an unknown key of the schema
CreateBodies == [quantity : QuantityInputs, status : StatusInputs]

\* The payload of the older POST /orders: required says that orderId,
\* customerName, phone and product are all present
SuppliedCreateBodies ==
  [required : BOOLEAN, orderId : OrderIds, status : StatusInputs]

---------------------------------------------------------------------------
(* State *)

\* db: the orders collection, a function from the orderIds stored to documents
\* req: per request slot, the request whose save() is pending
\* clock: the wall clock read by new Date()
\* cachedDb: the connection handle connectDB keeps, null until a connect succeeds
\* mongoUri: process.env.MONGO_URI
\* mongoose: the driver, the calls of mongoose.connect counted
\* server: the HTTP server app.listen returns
\* process: the server process, startServer's position and the exit code

Idle == [pc |-> "idle"]

\* readyState of mongoose.connection
Disconnected == 0
Connected == 1
Connecting == 2
Disconnecting == 3

Uri == Str(<<"mongodb://localhost/orders">>)

\* The process before anything has run
Cold ==
  /\ cachedDb = Null
  /\ mongoose = [connects |-> 0, readyState |-> Disconnected]
  /\ server = [listening |-> FALSE, connections |-> 0, callbacks |-> 0]
  /\ process = [pc |-> "loaded", signals |-> 0, closing |-> 0, exitCode |-> Null]

Init ==
  /\ db = [o \in {} |-> Null]
  /\ req = [p \in Procs |-> Idle]
  /\ clock = 1
  /\ mongoUri = Uri
  /\ Cold

\* What a handler's run leaves: the collection and the response sent
Result(store, res) == [db |-> store, res |-> res]

\* Mutant: Order.findOne({ orderId }), soft-deleted orders included
findOne_IncludingDeleted(store, orderId) ==
  IF orderId \in DOMAIN store THEN store[orderId] ELSE Null

\* Order.findOne({ orderId, isDeleted: false })
findOne(store, orderId) ==
  IF orderId \in DOMAIN store /\ ~store[orderId].isDeleted THEN store[orderId] ELSE Null

\* Mutant: a save() that writes the modified paths before it validates them
save_WriteThenValidate(store, op, orderId, m) ==
  LET errors == ValidationErrors(m) IN
  Result([store EXCEPT ![orderId] = ApplyUpdate(@, m)],
         IF errors # {} THEN ValidationFailure(errors) ELSE Success(op, m.doc))

\* await order.save() and the response that follows it; a ValidationError
\* goes to next(error) and nothing is written
save(store, op, orderId, m) ==
  LET errors == ValidationErrors(m) IN
  IF errors # {}
  THEN Result(store, ValidationFailure(errors))
  ELSE Result([store EXCEPT ![orderId] = ApplyUpdate(@, m)], Success(op, m.doc))

\* The synchronous code of the handler of request op, between findOne and save
Handler(op, order, body, now) ==
  CASE op = "patch" -> patch(order, body, now)
    [] op = "put" -> put(order, body, now)
    [] op = "cancel" -> cancel(order, body, now)
    [] op = "delete" -> delete(order)

\* A handler from findOne to its response, with no other request in between
Handle(store, now, op, orderId, body) ==
  LET order == findOne(store, orderId) IN
  IF order = Null THEN Result(store, NotFound)
  ELSE LET out == Handler(op, order, body, now) IN
       IF out.ret THEN Result(store, out.res) ELSE save(store, op, orderId, out.m)

PatchResult(store, now, orderId, body) == Handle(store, now, "patch", orderId, body)

PutResult(store, now, orderId, body) == Handle(store, now, "put", orderId, body)

CancelResult(store, now, orderId, body) == Handle(store, now, "cancel", orderId, body)

\* app.post('/api/orders/:orderId/cancel') of the serverless app, whose
\* schema has no isDeleted path: Order.findOne({ orderId }), then the same
\* handler and save
CancelApiResult(store, now, orderId, body) ==
  IF orderId \notin DOMAIN store THEN Result(store, NotFound)
  ELSE LET out == cancel(store[orderId], body, now) IN
       IF out.ret THEN Result(store, out.res) ELSE save(store, "cancel", orderId, out.m)

\* DELETE reads no body
NoBody == [empty |-> TRUE]

DeleteResult(store, orderId) == Handle(store, 0, "delete", orderId, NoBody)

(* Reads *)

\* A request path can name any orderId: 0 stands for one shorter than three
\* characters, the others for generated ones ('ORD-' and six characters)
RequestIds == 0..NumOrders

IdLength(orderId) == IF orderId = 0 THEN 2 ELSE 10

\* GET /:orderId
getOne(store, orderId) ==
  IF IdLength(orderId) < 3
  THEN Resp(400, FALSE, "Invalid order ID format", NoData)
  ELSE LET order == findOne(store, orderId) IN
       IF order = Null THEN NotFound
       ELSE Resp(200, TRUE, "Order retrieved successfully", order)

\* The query of GET /, page and limit already parsed and clamped
ListQueries == [status : StatusInputs, page : 1..2, limit : {1, 10}]

\* filter = { isDeleted: false }, with the status when it is one of the five
Matches(order, query) ==
  /\ ~order.isDeleted
  /\ (Truthy(query.status) /\ query.status.v \in Statuses) =>
       order.status = query.status.v

\* The orderIds of ids, latest first (the orderId standing for createdAt)
RECURSIVE Sorted(_)
Sorted(ids) ==
  IF ids = {} THEN <<>>
  ELSE LET latest == CHOOSE i \in ids : \A j \in ids : j <= i IN
       <<latest>> \o Sorted(ids \ {latest})

\* .skip(skip).limit(limit)
SkipLimit(seq, skip, limit) ==
  SubSeq(seq, skip + 1, IF skip + limit < Len(seq) THEN skip + limit ELSE Len(seq))

\* Math.ceil(a / b) for b # 0
Ceil(a, b) == IF b > 0 THEN 0 - ((0 - a) \div b) ELSE 0 - (a \div (0 - b))

\* GET /: countDocuments(filter) and find(filter).sort().skip().limit()
list(store, query) ==
  LET found == {o \in DOMAIN store : Matches(store[o], query)}
      page == SkipLimit(Sorted(found), (query.page - 1) * query.limit, query.limit)
  IN Resp(200, TRUE, "Orders retrieved successfully",
          [total |-> Cardinality(found),
           page |-> query.page,
           totalPages |-> Ceil(Cardinality(found), query.limit),
           limit |-> query.limit,
           orders |-> [i \in DOMAIN page |-> store[page[i]]]])

\* GET /api/health: 200 when mongoose.connection.readyState is 1, 503 when
\* it is not
health(isConnected, now) ==
  Resp(IF isConnected THEN 200 ELSE 503, isConnected,
       IF isConnected THEN "API is running and healthy"
       ELSE "API is running but DB disconnected",
       [timestamp |-> Date(now)])

\* The catch of GET /api/health
healthFailed == Resp(503, FALSE, "Health check failed", NoData)

\* Number.NaN
NaN == [t |-> "nan"]

Digits == <<"0", "1", "2", "3", "4", "5", "6", "7", "8", "9">>

IsDigit(a) == \E d \in DOMAIN Digits : Digits[d] = a

DigitValue(a) == (CHOOSE d \in DOMAIN Digits : Digits[d] = a) - 1

\* the longest prefix of s made of decimal digits
RECURSIVE DigitPrefix(_)
DigitPrefix(s) ==
  IF s = <<>> \/ ~IsDigit(Head(s)) THEN <<>>
  ELSE <<Head(s)>> \o DigitPrefix(Tail(s))

\* the number a non-empty sequence of decimal digits writes
RECURSIVE Decimal(_)
Decimal(s) ==
  IF s = <<>> THEN 0
  ELSE 10 * Decimal(SubSeq(s, 1, Len(s) - 1)) + DigitValue(s[Len(s)])

\* parseInt(x) of a query value (undefined or a string without a 0x prefix):
\* leading whitespace skipped, an optional sign, then the leading digits;
\* NaN when there are none
parseInt(x) ==
  IF x.t # "string" THEN NaN
  ELSE LET s == TrimStart(x.v)
           signed == s # <<>> /\ Head(s) \in {"-", "+"}
           digits == DigitPrefix(IF signed THEN Tail(s) ELSE s)
       IN IF digits = <<>> THEN NaN
          ELSE IF signed /\ Head(s) = "-" THEN Num(0 - Decimal(digits))
          ELSE Num(Decimal(digits))

MathMax(a, b) == IF a >= b THEN a ELSE b
MathMin(a, b) == IF a <= b THEN a ELSE b

\* Values of req.query.page and req.query.limit
PagingInputs ==
  {Undef, Str(<<>>), Str(<<"a">>), Str(<<"0">>), Str(<<"-", "3">>), Str(<<"2">>),
   Str(<<" ", "7">>), Str(<<"1", "0", "a">>), Str(<<"1", "0", "0">>),
   Str(<<"5", "0", "0">>)}

RawListQueries == [status : StatusInputs, page : PagingInputs, limit : PagingInputs]

\* GET /: page, limit and skip from the query string
pagination(query) ==
  LET page == MathMax(1, OrElse(parseInt(query.page), Num(1)).v)
      limit == MathMin(100, MathMax(1, OrElse(parseInt(query.limit), Num(10)).v))
  IN [page |-> page, limit |-> limit, skip |-> (page - 1) * limit]

\* GET / of a raw query string
listRaw(store, query) ==
  LET paging == pagination(query) IN
  list(store, [status |-> query.status, page |-> paging.page, limit |-> paging.limit])

\* GET /api/orders of the serverless app, of a raw query string: filter = {},
\* with the status when it is one of the five
listApi(store, query) ==
  LET paging == pagination(query)
      found == {o \in DOMAIN store :
                  (Truthy(query.status) /\ query.status.v \in Statuses) =>
                    store[o].status = query.status.v}
      page == SkipLimit(Sorted(found), paging.skip, paging.limit)
  IN Resp(200, TRUE, "Orders retrieved successfully",
          [total |-> Cardinality(found),
           page |-> paging.page,
           totalPages |-> Ceil(Cardinality(found), paging.limit),
           limit |-> paging.limit,
           orders |-> [i \in DOMAIN page |-> store[page[i]]]])

\* GET /orders of the older router: page, limit and skip from the query string
paginationRoutes(query) ==
  LET page == OrElse(parseInt(query.page), Num(1)).v
      limit == OrElse(parseInt(query.limit), Num(10)).v
  IN [page |-> page, limit |-> limit, skip |-> (page - 1) * limit]

\* GET /orders of the older router: every stored order is counted and found;
\* the server refuses a negative skip, and takes a negative limit as its
\* absolute value
listRoutes(store, query) ==
  LET paging == paginationRoutes(query)
      found == Sorted(DOMAIN store)
      limit == IF paging.limit < 0 THEN 0 - paging.limit ELSE paging.limit
      orders == SkipLimit(found, paging.skip, limit)
  IN IF paging.skip < 0
     THEN Resp(500, FALSE, "Skip value must be non-negative", NoData)
     ELSE Resp(200, TRUE, "Orders retrieved successfully",
               [total |-> Len(found),
                page |-> paging.page,
                totalPages |-> Ceil(Len(found), paging.limit),
                orders |-> [i \in DOMAIN orders |-> store[orders[i]]]])

\* validateCreateOrder: the Joi schema's quantity rule, with its default
JoiQuantity(quantity) ==
  IF quantity = Undef THEN [ok |-> TRUE, value |-> 1]
  ELSE IF quantity.v < QuantityMin \/ quantity.v > QuantityMax THEN [ok |-> FALSE]
  ELSE [ok |-> TRUE, value |-> quantity.v]

\* Mutant: the collection without the unique index on orderId
insertOne_NoUniqueIndex(store, doc) ==
  [ok |-> TRUE,
   db |-> [o \in DOMAIN store \cup {doc.orderId} |->
             IF o = doc.orderId THEN doc ELSE store[o]]]

\* The insert of newOrder.save(): the unique index on orderId rejects a
\* document whose orderId is stored already (error code 11000), whether or
\* not the stored one is soft-deleted
insertOne(store, doc) ==
  IF doc.orderId \in DOMAIN store
  THEN [ok |-> FALSE, db |-> store]
  ELSE [ok |-> TRUE, db |-> store @@ (doc.orderId :> doc)]

\* Mutant: POST / that replaces the stored order on a duplicate orderId
CreateResult_Replace(store, id, body) ==
  LET v == JoiQuantity(body.quantity) IN
  IF ~v.ok THEN Result(store, Resp(400, FALSE, "Validation failed", NoData))
  ELSE Result(insertOne_NoUniqueIndex(store, NewOrder(id, v.value)).db,
              Resp(201, TRUE, "Order created successfully", NewOrder(id, v.value)))

\* POST /: validateCreateOrder (unknown keys such as status are stripped),
\* new Order with the generated orderId id and status 'pending', save; a
\* duplicate orderId is answered 409
CreateResult(store, id, body) ==
  LET v == JoiQuantity(body.quantity) IN
  IF ~v.ok THEN Result(store, Resp(400, FALSE, "Validation failed", NoData))
  ELSE LET newOrder == NewOrder(id, IF v.value # 0 THEN v.value ELSE 1)
           saved == insertOne(store, newOrder)
       IN IF ~saved.ok
          THEN Result(store,
                      Resp(409, FALSE, "Order creation failed. Please try again.", NoData))
          ELSE Result(saved.db, Resp(201, TRUE, "Order created successfully", newOrder))

(* The older POST /orders, which takes the orderId and the status from the   *)
(* payload and looks the orderId up before it saves.                         *)

\* The status enum of the schema that route was written against
SuppliedStatuses == {S("pending"), S("shipped"), S("delivered"), S("cancelled")}

\* The 400 for a missing required field
MissingFields ==
  Resp(400, FALSE, "Missing required fields: orderId, customerName, phone, product", NoData)

\* The 400 of the lookup that finds the orderId
AlreadyExists == Resp(400, FALSE, "Order with this orderId already exists", NoData)

\* new Order({ orderId, ..., status: status || 'pending' })
SuppliedOrder(body) ==
  [NewOrder(body.orderId, 1) EXCEPT
     !.status = IF Truthy(body.status) THEN body.status.v ELSE S("pending")]

\* POST /orders up to newOrder.save(): the required-field check and
\* Order.findOne({ orderId }), which also finds a soft-deleted order
createSupplied(store, body) ==
  IF ~body.required THEN Return(MissingFields)
  ELSE IF body.orderId \in DOMAIN store THEN Return(AlreadyExists)
  ELSE ToSave(SuppliedOrder(body))

\* newOrder.save() of POST /orders and its response: a ValidationError or a
\* duplicate key goes to the catch, which answers 500
saveSupplied(store, newOrder) ==
  LET saved == insertOne(store, newOrder) IN
  IF newOrder.status \notin SuppliedStatuses \/ ~saved.ok
  THEN Result(store, Resp(500, FALSE, "error.message", NoData))
  ELSE Result(saved.db, Resp(201, TRUE, "Order created successfully", newOrder))

\* POST /orders from its first line to its response, nothing in between
CreateSuppliedResult(store, body) ==
  LET out == createSupplied(store, body) IN
  IF out.ret THEN Result(store, out.res) ELSE saveSupplied(store, out.m)

(* The POST /orders that generates the orderId and sets the status itself. *)

\* new Order({ orderId, customerName, phone, product, status: "placed", ... })
PlacedOrder(id) == [NewOrder(id, 1) EXCEPT !.status = S("placed")]

\* POST /orders: the required-field check, the generated orderId id that
\* Order.findOne does not find, new Order and save; the enum validator of
\* the status runs at save and the catch answers its error with 500
createPlaced(store, id, required) ==
  IF ~required
  THEN Result(store,
              Resp(400, FALSE, "Missing required fields: customerName, phone, product",
                   NoData))
  ELSE saveSupplied(store, PlacedOrder(id))

(* The text fields of a create payload: customerName, phone and product,   *)
(* through the input validator of each create route and the schema         *)
(* validators of the save that follows it.                                 *)

NameMin == 2
NameMax == 100
ProductMax == 200
PhoneDigits == 10

\* the string of n atoms a
Repeat(a, n) == [i \in 1..n |-> a]

\* /^[\d\s\-\+\(\)]+$/.test(s)
PhonePattern(s) ==
  /\ s # <<>>
  /\ \A i \in DOMAIN s : IsDigit(s[i]) \/ IsSpace(s[i]) \/ s[i] \in {"-", "+", "(", ")"}

\* s.replace(/\D/g, '')
DigitsOnly(s) == SelectSeq(s, IsDigit)

\* The phone validator of the Order schema:
\* /^[\d\s\-\+\(\)]+$/.test(v) && v.replace(/\D/g, '').length >= 10
PhoneValid(v) == PhonePattern(v) /\ Len(DigitsOnly(v)) >= PhoneDigits

\* the set of e when cond holds, the empty set otherwise
When(cond, e) == IF cond THEN {e} ELSE {}

NameInputs ==
  {Undef, Str(<<>>), Str(<<"A">>), Str(<<" ", "A", " ">>), Str(<<"A", "l">>),
   Str(Repeat("a", NameMax)), Str(Repeat("a", NameMax + 1))}

\* absent, '12345', '123-456-7890', '12-34-56-7', '123456789x0'
PhoneInputs ==
  {Undef,
   Str(<<"1", "2", "3", "4", "5">>),
   Str(<<"1", "2", "3", "-", "4", "5", "6", "-", "7", "8", "9", "0">>),
   Str(<<"1", "2", "-", "3", "4", "-", "5", "6", "-", "7">>),
   Str(<<"1", "2", "3", "4", "5", "6", "7", "8", "9", "x", "0">>)}

ProductInputs ==
  {Undef, Str(<<"P">>), Str(<<"P", "e", "n">>),
   Str(Repeat("p", ProductMax)), Str(Repeat("p", ProductMax + 1))}

\* req.body of a create request
CreateTextBodies ==
  [customerName : NameInputs, phone : PhoneInputs, product : ProductInputs,
   quantity : QuantityInputs]

\* An entry of the error list of validateCreateOrder
FieldError(field, message) == [field |-> field, message |-> message]

\* Joi.string().min(min).max(max).trim().required() of the key field: the
\* value is trimmed before the rules run
JoiText(x, field, min, max) ==
  IF x = Undef THEN {FieldError(field, "is required")}
  ELSE LET v == Trim(x.v) IN
       IF v = <<>> THEN {FieldError(field, "is not allowed to be empty")}
       ELSE When(Len(v) < min, FieldError(field, "length must be at least min"))
            \cup When(Len(v) > max, FieldError(field, "length cannot exceed max"))

\* Joi.string().pattern(...).min(10).required() of the key phone: min counts
\* the characters of the string
JoiPhone(x) ==
  IF x = Undef THEN {FieldError("phone", "is required")}
  ELSE IF x.v = <<>> THEN {FieldError("phone", "Phone number is required")}
  ELSE When(~PhonePattern(x.v), FieldError("phone", "Invalid phone number format"))
       \cup When(Len(x.v) < PhoneDigits,
                 FieldError("phone", "Phone number must be at least 10 digits"))

\* createOrderSchema.validate(req.body, { abortEarly: false }): the error
\* details of every key, and the value with the strings trimmed and the
\* quantity defaulted
createOrderSchema(body) ==
  LET quantity == JoiQuantity(body.quantity) IN
  [errors |-> JoiText(body.customerName, "customerName", NameMin, NameMax)
                \cup JoiPhone(body.phone)
                \cup JoiText(body.product, "product", NameMin, ProductMax)
                \cup When(~quantity.ok,
                          FieldError("quantity",
                                     IF body.quantity.v < QuantityMin
                                     THEN "Quantity must be at least 1"
                                     ELSE "Quantity cannot exceed 1000")),
   value |-> [customerName |-> OptTrim(body.customerName),
              phone |-> body.phone,
              product |-> OptTrim(body.product),
              quantity |-> IF quantity.ok THEN quantity.value ELSE 1]]

\* The 400 of an input validator, with its error list
ValidationFailed(errors) == Resp(400, FALSE, "Validation failed", [errors |-> errors])

\* new Order({ customerName: customerName.trim(), phone: phone.trim(),
\*             product: product.trim(), quantity: quantity || 1, status: 'pending' })
NewTextOrder(id, customerName, phone, product, quantity) ==
  [orderId |-> id,
   customerName |-> Trim(customerName),
   phone |-> Trim(phone),
   product |-> Trim(product),
   quantity |-> IF quantity # 0 THEN quantity ELSE 1,
   status |-> S("pending"),
   cancelledAt |-> Null,
   cancellationReason |-> Null,
   isDeleted |-> FALSE,
   version |-> 0]

\* The validators of the Order schema on the text paths of a new document
TextErrors(doc) ==
  When(doc.customerName = <<>>, "Customer name is required")
  \cup When(doc.customerName # <<>> /\ Len(doc.customerName) < NameMin,
            "Customer name must be at least 2 characters")
  \cup When(Len(doc.customerName) > NameMax, "Customer name cannot exceed 100 characters")
  \cup When(doc.phone = <<>>, "Phone number is required")
  \cup When(doc.phone # <<>> /\ ~PhoneValid(doc.phone), "Invalid phone number format")
  \cup When(doc.product = <<>>, "Product name is required")
  \cup When(doc.product # <<>> /\ Len(doc.product) < NameMin,
            "Product name must be at least 2 characters")
  \cup When(Len(doc.product) > ProductMax, "Product name cannot exceed 200 characters")

\* newOrder.save() of POST / and its response: the schema validators, then
\* the insert; a ValidationError goes to errorHandler, a duplicate orderId is
\* answered 409
saveNew(store, newOrder) ==
  LET errors == TextErrors(newOrder) \cup PathErrors(newOrder, "quantity") IN
  IF errors # {} THEN Result(store, ValidationFailure(errors))
  ELSE LET saved == insertOne(store, newOrder) IN
       IF ~saved.ok
       THEN Result(store,
                   Resp(409, FALSE, "Order creation failed. Please try again.", NoData))
       ELSE Result(saved.db, Resp(201, TRUE, "Order created successfully", newOrder))

\* POST / with the text fields: validateCreateOrder, then the handler
createOrder(store, id, body) ==
  LET validated == createOrderSchema(body) IN
  IF validated.errors # {} THEN Result(store, ValidationFailed(validated.errors))
  ELSE saveNew(store, NewTextOrder(id, validated.value.customerName.v,
                                   validated.value.phone.v, validated.value.product.v,
                                   validated.value.quantity))

\* !x of a payload string: absent or empty
Missing(x) == ~Truthy(x)

\* validateCreateInput of app.post('/api/orders'): the messages pushed, one
\* per failing check
validateCreateInput(data) ==
  When(Missing(data.customerName) \/ Len(Trim(data.customerName.v)) < NameMin,
       "Customer name must be at least 2 characters")
  \cup When(\/ Missing(data.phone)
            \/ ~PhonePattern(data.phone.v)
            \/ Len(DigitsOnly(data.phone.v)) < PhoneDigits,
            "Valid phone number is required (min 10 digits)")
  \cup When(Missing(data.product) \/ Len(Trim(data.product.v)) < NameMin,
            "Product name must be at least 2 characters")
  \cup When(data.quantity # Undef
              /\ (data.quantity.v < QuantityMin \/ data.quantity.v > QuantityMax),
            "Quantity must be between 1 and 1000")

\* The validators of the inline schema of the serverless app: the text paths
\* are required, with no length or format rule
InlineTextErrors(doc) ==
  When(doc.customerName = <<>>, "Customer name is required")
  \cup When(doc.phone = <<>>, "Phone is required")
  \cup When(doc.product = <<>>, "Product is required")

\* app.post('/api/orders'): validateCreateInput, new Order, save; a duplicate
\* orderId is answered 409, any other error goes to the error middleware
createApi(store, id, body) ==
  LET validationErrors == validateCreateInput(body) IN
  IF validationErrors # {} THEN Result(store, ValidationFailed(validationErrors))
  ELSE LET newOrder == NewTextOrder(id, body.customerName.v, body.phone.v, body.product.v,
                                    IF body.quantity = Undef THEN 0 ELSE body.quantity.v)
           errors == InlineTextErrors(newOrder) \cup PathErrors(newOrder, "quantity")
           saved == insertOne(store, newOrder)
       IN IF errors # {}
          THEN Result(store, Resp(500, FALSE, CHOOSE e \in errors : TRUE, NoData))
          ELSE IF ~saved.ok
          THEN Result(store,
                      Resp(409, FALSE, "Order creation failed. Please try again.", NoData))
          ELSE Result(saved.db, Resp(201, TRUE, "Order created successfully", newOrder))

\* The validators of the schema the older router was written against: the
\* text paths are required, the quantity is at least 1
RoutesErrors(doc) ==
  When(doc.customerName = <<>>, "Path customerName is required.")
  \cup When(doc.phone = <<>>, "Path phone is required.")
  \cup When(doc.product = <<>>, "Path product is required.")
  \cup When(doc.quantity < QuantityMin, "Path quantity is less than minimum allowed value")

\* POST /orders of the older router, which generates the orderId: the basic
\* validation answers with the first failing check, then new Order and save;
\* whatever save throws is answered 500
createRoutes(store, id, body) ==
  IF Missing(body.customerName) \/ Missing(body.phone) \/ Missing(body.product)
  THEN Result(store,
              Resp(400, FALSE, "customerName, phone, and product are required", NoData))
  ELSE IF body.quantity # Undef /\ body.quantity.v < 1
  THEN Result(store, Resp(400, FALSE, "Quantity must be at least 1", NoData))
  ELSE LET newOrder == NewTextOrder(id, body.customerName.v, body.phone.v, body.product.v,
                                    IF body.quantity = Undef THEN 0 ELSE body.quantity.v)
           errors == RoutesErrors(newOrder)
           saved == insertOne(store, newOrder)
       IN IF errors # {} \/ ~saved.ok
          THEN Result(store, Resp(500, FALSE, "error.message", NoData))
          ELSE Result(saved.db, Resp(201, TRUE, "Order created successfully", newOrder))

(* The older PUT /orders/:orderId of the 4-state routes, which assigns the  *)
(* status to the loaded order before it checks the quantity.               *)

allowedTransitions(currentStatus) ==
  CASE currentStatus = S("pending") -> <<S("shipped"), S("cancelled")>>
    [] currentStatus = S("shipped") -> <<S("delivered")>>
    [] currentStatus = S("delivered") -> <<>>
    [] currentStatus = S("cancelled") -> <<>>
    [] OTHER -> <<>>

\* PUT /orders/:orderId, optional updates: the quantity check and assignment
putRoutesQuantity(m, body) ==
  IF body.quantity # Undef
  THEN IF body.quantity.v < 1
       THEN Return(Resp(400, FALSE, "Quantity must be at least 1", NoData))
       ELSE ToSave(Set(m, "quantity", body.quantity.v))
  ELSE ToSave(m)

\* PUT /orders/:orderId between findOne and save
putRoutes(order, body) ==
  IF Truthy(body.status)
  THEN IF body.status.v \notin Range(allowedTransitions(order.status))
       THEN Return(Resp(400, FALSE, "Cannot change status", NoData))
       ELSE putRoutesQuantity(Set(Loaded(order), "status", body.status.v), body)
  ELSE putRoutesQuantity(Loaded(order), body)

\* order.save() of that route under the first schema (quantity min 1, the
\* 4-state enum); the route's catch answers any error with 500
saveRoutes(store, orderId, m) ==
  IF \/ "quantity" \in m.mod /\ m.doc.quantity < QuantityMin
     \/ "status" \in m.mod /\ m.doc.status \notin SuppliedStatuses
  THEN Result(store, Resp(500, FALSE, "error.message", NoData))
  ELSE Result([store EXCEPT ![orderId] = ApplyUpdate(@, m)],
              Resp(200, TRUE, "Order updated successfully", m.doc))

\* PUT /orders/:orderId: Order.findOne({ orderId }), 404, the handler, save
PutRoutesResult(store, orderId, body) ==
  IF orderId \notin DOMAIN store THEN Result(store, NotFound)
  ELSE LET out == putRoutes(store[orderId], body) IN
       IF out.ret THEN Result(store, out.res) ELSE saveRoutes(store, orderId, out.m)

---------------------------------------------------------------------------
(* Actions *)

Create ==
  /\ \E id \in OrderIds, body \in CreateBodies : db' = CreateResult(db, id, body).db
  /\ UNCHANGED <<req, clock>>
  /\ UNCHANGED hostVars

\* new Date() advances
Tick ==
  /\ clock < MaxClock
  /\ clock' = clock + 1
  /\ UNCHANGED <<db, req>>
  /\ UNCHANGED hostVars

(* Requests that do not overlap *)

Patch ==
  /\ \E orderId \in OrderIds, body \in UpdateBodies :
       db' = PatchResult(db, clock, orderId, body).db
  /\ UNCHANGED <<req, clock>>
  /\ UNCHANGED hostVars

Put ==
  /\ \E orderId \in OrderIds, body \in UpdateBodies :
       db' = PutResult(db, clock, orderId, body).db
  /\ UNCHANGED <<req, clock>>
  /\ UNCHANGED hostVars

Cancel ==
  /\ \E orderId \in OrderIds, body \in CancelBodies :
       db' = CancelResult(db, clock, orderId, body).db
  /\ UNCHANGED <<req, clock>>
  /\ UNCHANGED hostVars

Delete ==
  /\ \E orderId \in OrderIds : db' = DeleteResult(db, orderId).db
  /\ UNCHANGED <<req, clock>>
  /\ UNCHANGED hostVars

(* Requests that overlap: the handler in slot p stops at its call of save() *)

Load(p, op, orderId, body) ==
  /\ req[p].pc = "idle"
  /\ LET order == findOne(db, orderId) IN
     /\ order # Null
     /\ LET out == Handler(op, order, body, clock) IN
        /\ ~out.ret
        /\ req' = [req EXCEPT ![p] =
                     [pc |-> "saving", op |-> op, orderId |-> orderId,
                      loaded |-> order, m |-> out.m]]
  /\ UNCHANGED <<db, clock>>
  /\ UNCHANGED hostVars

PatchLoad(p) ==
  \E orderId \in OrderIds, body \in OverlapUpdateBodies : Load(p, "patch", orderId, body)

PutLoad(p) ==
  \E orderId \in OrderIds, body \in OverlapUpdateBodies : Load(p, "put", orderId, body)

CancelLoad(p) ==
  \E orderId \in OrderIds, body \in OverlapCancelBodies : Load(p, "cancel", orderId, body)

DeleteLoad(p) ==
  \E orderId \in OrderIds : Load(p, "delete", orderId, NoBody)

Save(p) ==
  /\ req[p].pc = "saving"
  /\ db' = save(db, req[p].op, req[p].orderId, req[p].m).db
  /\ req' = [req EXCEPT ![p] = Idle]
  /\ UNCHANGED clock
  /\ UNCHANGED hostVars

(* Creates that overlap: slot p runs one create; the older POST /orders     *)
(* stops between its lookup and its save                                    *)

\* The slot of a create that was answered 201 keeps what the response returned
Created(order) == [pc |-> "created", orderId |-> order.orderId, doc |-> order]

\* POST /orders: required-field check and findOne({ orderId })
SuppliedCheck(p) ==
  /\ req[p].pc = "idle"
  /\ \E body \in SuppliedCreateBodies :
       LET out == createSupplied(db, body) IN
       /\ ~out.ret
       /\ req' = [req EXCEPT ![p] =
                    [pc |-> "inserting", orderId |-> body.orderId, doc |-> out.m]]
  /\ UNCHANGED <<db, clock>>
  /\ UNCHANGED hostVars

\* POST /orders: newOrder.save() and the response
SuppliedInsert(p) ==
  /\ req[p].pc = "inserting"
  /\ LET r == saveSupplied(db, req[p].doc) IN
     /\ db' = r.db
     /\ req' = [req EXCEPT ![p] = IF r.res.code = 201 THEN Created(req[p].doc) ELSE Idle]
  /\ UNCHANGED clock
  /\ UNCHANGED hostVars

\* POST /: the orderId is generated, the insert is the handler's only await
GeneratedCreate(p) ==
  /\ req[p].pc = "idle"
  /\ \E id \in OrderIds, body \in CreateBodies :
       LET r == CreateResult(db, id, body) IN
       /\ r.res.code = 201
       /\ db' = r.db
       /\ req' = [req EXCEPT ![p] = Created(r.res.data)]
  /\ UNCHANGED clock
  /\ UNCHANGED hostVars

(* Requests answered at once (list, create, a request that fails): slot p   *)
(* keeps the exchange, one exchange at a time                               *)

ListRoutes == {"GET /", "GET /orders"}
CreateRoutes == {"POST /", "POST /api/orders", "POST /orders"}
Boundaries == {"errorHandler", "errorMiddleware", "catch"}

\* The list queries sent: every page and limit value, no status filter
AnsweredListQueries == {query \in RawListQueries : query.status = Undef}

\* The create payloads sent: every customerName and phone, a valid and an
\* invalid product, no quantity and an invalid one
AnsweredCreateBodies ==
  {body \in CreateTextBodies :
     /\ body.product \in {Str(<<"P">>), Str(<<"P", "e", "n">>)}
     /\ body.quantity \in {Undef, Num(0)}}

\* page, limit and skip as the list route computes them
pagingOf(route, query) ==
  IF route = "GET /" THEN pagination(query) ELSE paginationRoutes(query)

listOf(route, store, query) ==
  IF route = "GET /" THEN listRaw(store, query) ELSE listRoutes(store, query)

createOf(route, store, id, body) ==
  CASE route = "POST /" -> createOrder(store, id, body)
    [] route = "POST /api/orders" -> createApi(store, id, body)
    [] route = "POST /orders" -> createRoutes(store, id, body)

boundaryOf(boundary, err, env) ==
  CASE boundary = "errorHandler" -> errorHandler(err, env)
    [] boundary = "errorMiddleware" -> errorMiddleware(err, env)
    [] boundary = "catch" -> routesCatch(err, env)

\* No exchange is kept in any slot
AllIdle == \A q \in Procs : req[q].pc = "idle"

\* The list endpoint answers a query
ListAnswer(p) ==
  /\ AllIdle
  /\ \E route \in ListRoutes, query \in AnsweredListQueries :
       req' = [req EXCEPT ![p] =
                 [pc |-> "answered", op |-> "list", route |-> route, query |-> query,
                  paging |-> pagingOf(route, query), res |-> listOf(route, db, query)]]
  /\ UNCHANGED <<db, clock>>
  /\ UNCHANGED hostVars

\* A create route answers a payload, the generated orderId being id
CreateAnswer(p) ==
  /\ AllIdle
  /\ \E route \in CreateRoutes, id \in OrderIds, body \in AnsweredCreateBodies :
       LET r == createOf(route, db, id, body) IN
       /\ db' = r.db
       /\ req' = [req EXCEPT ![p] =
                    [pc |-> "answered", op |-> "create", route |-> route, id |-> id,
                     body |-> body, before |-> db, res |-> r.res]]
  /\ UNCHANGED clock
  /\ UNCHANGED hostVars

\* A request fails with the error err, which its error boundary answers
\* under NODE_ENV env; nothing is written
ErrorAnswer(p) ==
  /\ AllIdle
  /\ \E boundary \in Boundaries, err \in ErrorInputs, env \in NodeEnvs :
       req' = [req EXCEPT ![p] =
                 [pc |-> "answered", op |-> "error", boundary |-> boundary, err |-> err,
                  env |-> env, res |-> boundaryOf(boundary, err, env)]]
  /\ UNCHANGED <<db, clock>>
  /\ UNCHANGED hostVars

\* The exchange of slot p is over
Forget(p) ==
  /\ req[p].pc = "answered"
  /\ req' = [req EXCEPT ![p] = Idle]
  /\ UNCHANGED <<db, clock>>
  /\ UNCHANGED hostVars

---------------------------------------------------------------------------
(* The list endpoint on a collection of several orders *)

\* orderIds of the collection that is listed
MaxStored == 3

\* A stored order with the given status, live or soft-deleted
StoredOrder(id, status, isDeleted) ==
  [NewOrder(id, 1) EXCEPT !.status = status, !.isDeleted = isDeleted]

\* The collections listed: any of the orderIds, each order pending or
\* shipped, live or soft-deleted
ListStores ==
  {[o \in {i \in 1..MaxStored : c[i].present} |->
      StoredOrder(o, c[o].status, c[o].isDeleted)] :
     c \in [1..MaxStored -> [present : BOOLEAN,
                             status : {S("pending"), S("shipped")},
                             isDeleted : BOOLEAN]]}

\* The queries sent: no status, one of the five, an unknown one; page absent,
\* 0, 2, beyond the end; limit absent, negative, 2, above 100
PageQueries ==
  {query \in RawListQueries :
     /\ query.status \in {Undef, Str(S("pending")), Str(S("refunded"))}
     /\ query.page \in {Undef, Str(<<"0">>), Str(<<"2">>), Str(<<" ", "7">>)}
     /\ query.limit \in {Undef, Str(<<"-", "3">>), Str(<<"2">>), Str(<<"5", "0", "0">>)}}

PageRoutes == {"GET /", "GET /api/orders"}

pageOf(route, store, query) ==
  IF route = "GET /" THEN listRaw(store, query) ELSE listApi(store, query)

\* A list route answers a query
PageAnswer(p) ==
  /\ AllIdle
  /\ \E route \in PageRoutes, query \in PageQueries :
       req' = [req EXCEPT ![p] =
                 [pc |-> "answered", op |-> "page", route |-> route, query |-> query,
                  res |-> pageOf(route, db, query)]]
  /\ UNCHANGED <<db, clock>>
  /\ UNCHANGED hostVars

---------------------------------------------------------------------------
(* The serverless function: every invocation awaits connectDB() *)

\* mongoose.connect calls counted
MaxConnects == 4

\* What mongoose.connect resolves to
Mongoose == [t |-> "object", v |-> "mongoose"]

\* process.env.MONGO_URI: unset, empty, or the connection string
MongoUris == {Undef, Str(<<>>), Uri}

ConnectionFailed == Resp(500, FALSE, "Database connection failed", NoData)

\* connectDB up to its await: the cached handle is returned, the missing
\* MONGO_URI is thrown, or mongoose.connect is called
connectDB(cached, uri) ==
  IF cached # Null THEN [kind |-> "return", value |-> cached]
  ELSE IF ~Truthy(uri) THEN
    [kind |-> "throw", message |-> "MONGO_URI environment variable is not defined"]
  ELSE [kind |-> "connect"]

\* The invocation in slot p is over: app(req, res) ran with the handle, or
\* the catch answered 500
Invoked(handle, res) ==
  [pc |-> "answered", op |-> "invoke", handle |-> handle, res |-> res]

\* The function is invoked with a request; connectDB runs up to its await
Invoke(p) ==
  /\ req[p].pc = "idle"
  /\ LET c == connectDB(cachedDb, mongoUri) IN
     CASE c.kind = "return" ->
            /\ req' = [req EXCEPT ![p] = Invoked(c.value, Undef)]
            /\ UNCHANGED mongoose
       [] c.kind = "throw" ->
            /\ req' = [req EXCEPT ![p] = Invoked(Null, ConnectionFailed)]
            /\ UNCHANGED mongoose
       [] c.kind = "connect" ->
            /\ mongoose.connects < MaxConnects
            /\ req' = [req EXCEPT ![p] =
                         [pc |-> "connecting", call |-> mongoose.connects + 1]]
            /\ mongoose' = [connects |-> mongoose.connects + 1,
                            readyState |-> IF mongoose.readyState = Connected
                                           THEN Connected ELSE Connecting]
  /\ UNCHANGED <<db, clock, cachedDb, mongoUri, server, process>>

\* Mutant: the handle is kept though the connect failed
ConnectRejects_Cached(p) ==
  /\ req[p].pc = "connecting"
  /\ mongoose.readyState # Connected
  /\ mongoose' = [mongoose EXCEPT !.readyState = Disconnected]
  /\ cachedDb' = Mongoose
  /\ req' = [req EXCEPT ![p] = Invoked(Null, ConnectionFailed)]
  /\ UNCHANGED <<db, clock, mongoUri, server, process>>

\* mongoose.connect resolves for the call of slot p: the handle is cached and
\* returned, and the request is passed to the app
ConnectResolves(p) ==
  /\ req[p].pc = "connecting"
  /\ mongoose' = [mongoose EXCEPT !.readyState = Connected]
  /\ cachedDb' = Mongoose
  /\ req' = [req EXCEPT ![p] = Invoked(Mongoose, Undef)]
  /\ UNCHANGED <<db, clock, mongoUri, server, process>>

\* mongoose.connect rejects for the call of slot p: connectDB rethrows and
\* the handler's catch answers 500
ConnectRejects(p) ==
  /\ req[p].pc = "connecting"
  /\ mongoose.readyState # Connected
  /\ mongoose' = [mongoose EXCEPT !.readyState = Disconnected]
  /\ req' = [req EXCEPT ![p] = Invoked(Null, ConnectionFailed)]
  /\ UNCHANGED <<db, clock, cachedDb, mongoUri, server, process>>

---------------------------------------------------------------------------
(* The server process: startServer and gracefulShutdown *)

\* SIGTERM and SIGINT signals delivered to the process
MaxSignals == 2
\* client connections open at once
MaxConnections == 2

\* connectDB of ./config/db, as startServer sees it: the call opens the
\* mongoose connection, which is being established while the call is pending
dbConnecting(m) == [connects |-> m.connects + 1, readyState |-> Connecting]

\* connectDB of ./config/db resolves: the connection is established
dbConnected(m) == [m EXCEPT !.readyState = Connected]

\* connectDB of ./config/db rejects, or the process ends: no connection
dbDisconnected(m) == [m EXCEPT !.readyState = Disconnected]

\* Mutant: the server listens before the database is connected
Start_ListensFirst ==
  /\ process.pc = "loaded"
  /\ process' = [process EXCEPT !.pc = "connecting"]
  /\ mongoose' = dbConnecting(mongoose)
  /\ server' = [server EXCEPT !.listening = TRUE]
  /\ UNCHANGED <<db, req, clock, cachedDb, mongoUri>>

\* startServer() is called and stops at await connectDB()
Start ==
  /\ process.pc = "loaded"
  /\ process' = [process EXCEPT !.pc = "connecting"]
  /\ mongoose' = dbConnecting(mongoose)
  /\ UNCHANGED <<db, req, clock, cachedDb, mongoUri, server>>

\* connectDB() resolves: app.listen(PORT), and the handlers of SIGTERM and
\* SIGINT are registered
Listen ==
  /\ process.pc = "connecting"
  /\ process' = [process EXCEPT !.pc = "running"]
  /\ mongoose' = dbConnected(mongoose)
  /\ server' = [server EXCEPT !.listening = TRUE]
  /\ UNCHANGED <<db, req, clock, cachedDb, mongoUri>>

\* connectDB() rejects: the catch calls process.exit(1)
StartFails ==
  /\ process.pc = "connecting"
  /\ process' = [process EXCEPT !.pc = "exited", !.exitCode = Num(1)]
  /\ mongoose' = dbDisconnected(mongoose)
  /\ UNCHANGED <<db, req, clock, cachedDb, mongoUri, server>>

\* A signal arrives before its handler is registered: the process is
\* terminated by the signal, with no exit code
Killed ==
  /\ process.pc = "connecting"
  /\ process.signals < MaxSignals
  /\ process' = [process EXCEPT !.pc = "killed", !.signals = @ + 1]
  /\ mongoose' = dbDisconnected(mongoose)
  /\ UNCHANGED <<db, req, clock, cachedDb, mongoUri, server>>

\* A client opens a connection to the listening server
Accept ==
  /\ process.pc = "running"
  /\ server.listening
  /\ server.connections < MaxConnections
  /\ server' = [server EXCEPT !.connections = @ + 1]
  /\ UNCHANGED <<db, req, clock, cachedDb, mongoUri, mongoose, process>>

\* A client connection ends
Release ==
  /\ process.pc = "running"
  /\ server.connections > 0
  /\ server' = [server EXCEPT !.connections = @ - 1]
  /\ UNCHANGED <<db, req, clock, cachedDb, mongoUri, mongoose, process>>

\* GET /api/health arrives over an open connection and is answered
HealthAnswer(p) ==
  /\ process.pc = "running"
  /\ server.connections > 0
  /\ req[p].pc = "idle"
  /\ req' = [req EXCEPT ![p] =
               [pc |-> "answered", op |-> "health",
                res |-> health(mongoose.readyState = Connected, clock)]]
  /\ UNCHANGED <<db, clock>>
  /\ UNCHANGED hostVars

\* Mutant: gracefulShutdown closes the MongoDB connection without waiting
\* for the HTTP server's close callback
Signal_ClosesAtOnce ==
  /\ process.pc = "running"
  /\ process.signals < MaxSignals
  /\ process' = [process EXCEPT !.signals = @ + 1, !.closing = @ + 1]
  /\ server' = [server EXCEPT !.listening = FALSE]
  /\ mongoose' = [mongoose EXCEPT
                    !.readyState = IF @ = Connected THEN Disconnecting ELSE @]
  /\ UNCHANGED <<db, req, clock, cachedDb, mongoUri>>

\* SIGTERM or SIGINT: gracefulShutdown calls server.close(callback); the
\* server stops accepting connections and the callback waits for the
\* 'close' event
Signal ==
  /\ process.pc = "running"
  /\ process.signals < MaxSignals
  /\ process' = [process EXCEPT !.signals = @ + 1]
  /\ server' = [server EXCEPT !.listening = FALSE, !.callbacks = @ + 1]
  /\ UNCHANGED <<db, req, clock, cachedDb, mongoUri, mongoose>>

\* The server has stopped listening and its last connection has ended: it
\* emits 'close', every waiting callback runs up to
\* await mongoose.connection.close()
Closed ==
  /\ process.pc = "running"
  /\ ~server.listening
  /\ server.connections = 0
  /\ server.callbacks > 0
  /\ server' = [server EXCEPT !.callbacks = 0]
  /\ process' = [process EXCEPT !.closing = @ + server.callbacks]
  /\ mongoose' = [mongoose EXCEPT
                    !.readyState = IF @ = Connected THEN Disconnecting ELSE @]
  /\ UNCHANGED <<db, req, clock, cachedDb, mongoUri>>

\* The MongoDB connection has closed
MongoClosed ==
  /\ process.pc = "running"
  /\ mongoose.readyState = Disconnecting
  /\ mongoose' = [mongoose EXCEPT !.readyState = Disconnected]
  /\ UNCHANGED <<db, req, clock, cachedDb, mongoUri, server, process>>

\* await mongoose.connection.close() returns in a callback: process.exit(0)
Exit ==
  /\ process.pc = "running"
  /\ process.closing > 0
  /\ mongoose.readyState = Disconnected
  /\ process' = [process EXCEPT !.pc = "exited", !.exitCode = Num(0)]
  /\ UNCHANGED <<db, req, clock, cachedDb, mongoUri, mongoose, server>>

---------------------------------------------------------------------------
(* Specifications *)

\* Requests overlap: each slot runs its own request, the steps interleave
Next ==
  \/ Create
  \/ \E p \in Procs : PatchLoad(p)
  \/ \E p \in Procs : PutLoad(p)
  \/ \E p \in Procs : CancelLoad(p)
  \/ \E p \in Procs : DeleteLoad(p)
  \/ \E p \in Procs : Save(p)
  \/ Tick

Spec == Init /\ [][Next]_vars

\* Requests do not overlap: each request completes before the next starts
SeqNext ==
  \/ Create
  \/ Patch
  \/ Put
  \/ Cancel
  \/ Delete
  \/ Tick

SeqSpec == Init /\ [][SeqNext]_vars

\* Creates overlap, through both create routes
CreateNext ==
  \/ \E p \in Procs : SuppliedCheck(p)
  \/ \E p \in Procs : SuppliedInsert(p)
  \/ \E p \in Procs : GeneratedCreate(p)
  \/ Tick

CreateSpec == Init /\ [][CreateNext]_vars

\* Requests that are answered at once, one at a time, the exchange kept
AnswerNext ==
  \/ \E p \in Procs : ListAnswer(p)
  \/ \E p \in Procs : CreateAnswer(p)
  \/ \E p \in Procs : ErrorAnswer(p)
  \/ \E p \in Procs : Forget(p)

AnswerSpec == Init /\ [][AnswerNext]_vars

\* A collection of several orders, and nothing in flight
ListInit ==
  /\ db \in ListStores
  /\ req = [p \in Procs |-> Idle]
  /\ clock = 1
  /\ mongoUri = Uri
  /\ Cold

\* List requests, answered one at a time, the exchange kept
ListNext ==
  \/ \E p \in Procs : PageAnswer(p)
  \/ \E p \in Procs : Forget(p)

ListSpec == ListInit /\ [][ListNext]_vars

\* The server process from its start to its exit
ServerNext ==
  \/ Start
  \/ Listen
  \/ StartFails
  \/ Killed
  \/ Accept
  \/ Release
  \/ \E p \in Procs : HealthAnswer(p)
  \/ \E p \in Procs : Forget(p)
  \/ Tick
  \/ Signal
  \/ Closed
  \/ MongoClosed
  \/ Exit

ServerSpec == Init /\ [][ServerNext]_vars

\* A cold instance of the serverless function, with the MONGO_URI it was
\* deployed with
ConnectInit ==
  /\ db = [o \in {} |-> Null]
  /\ req = [p \in Procs |-> Idle]
  /\ clock = 1
  /\ mongoUri \in MongoUris
  /\ Cold

\* Invocations of the function overlap at the await of mongoose.connect
ConnectNext ==
  \/ \E p \in Procs : Invoke(p)
  \/ \E p \in Procs : ConnectResolves(p)
  \/ \E p \in Procs : ConnectRejects(p)
  \/ \E p \in Procs : Forget(p)

ConnectSpec == ConnectInit /\ [][ConnectNext]_vars

---------------------------------------------------------------------------
(* Properties *)

\* The orders a request can address: stored and not soft-deleted
Live == {o \in DOMAIN db : ~db[o].isDeleted}

\* The transition table as the specification states it
Table(current) ==
  CASE current = S("pending") -> {S("processing"), S("cancelled")}
    [] current = S("processing") -> {S("shipped"), S("cancelled")}
    [] current = S("shipped") -> {S("delivered"), S("cancelled")}
    [] current = S("delivered") -> {}
    [] current = S("cancelled") -> {}

Terminal == {S("delivered"), S("cancelled")}

\* The update payloads that request the status s
Requesting(s) == {b \in UpdateBodies : b.status = Str(s)}

\* The quantity of an update payload passes the schema's validators at save:
\* PATCH assigns any quantity sent, PUT assigns a truthy one
QuantityPasses(op, body) ==
  \/ body.quantity = Undef
  \/ op = "put" /\ body.quantity = Num(0)
  \/ body.quantity.v >= 1 /\ body.quantity.v <= 1000

UpdateResult(op, orderId, body) ==
  IF op = "patch" THEN PatchResult(db, clock, orderId, body)
  ELSE PutResult(db, clock, orderId, body)

\* The response is the 400 of a rejected transition out of status current
IsInvalidTransition(res, current) ==
  /\ res.code = 400
  /\ res.data # NoData
  /\ res.data.currentStatus = current
  /\ Range(res.data.allowedTransitions) = Table(current)

\* C1 as stated: for every pair of distinct statuses, a PATCH or PUT on a live
\* order succeeds and persists the requested status iff the pair is in the
\* table, and otherwise fails with the 400 carrying currentStatus and the full
\* allowedTransitions, the persisted status unchanged.
C1_AsStated ==
  \A o \in Live, op \in {"patch", "put"} :
    \A s \in Statuses \ {db[o].status} : \A body \in Requesting(s) :
      LET r == UpdateResult(op, o, body) IN
      IF s \in Table(db[o].status)
      THEN r.res.code = 200 /\ r.db[o].status = s
      ELSE IsInvalidTransition(r.res, db[o].status) /\ r.db = db

\* C1 (amended): the same, for a payload whose quantity passes the validators
\* run at save; a payload whose transition is in the table but whose quantity
\* fails them is answered 400 and nothing is persisted.
C1_Transitions ==
  \A o \in Live, op \in {"patch", "put"} :
    \A s \in Statuses \ {db[o].status} : \A body \in Requesting(s) :
      LET r == UpdateResult(op, o, body) IN
      IF s \in Table(db[o].status)
      THEN IF QuantityPasses(op, body)
           THEN r.res.code = 200 /\ r.db[o].status = s
           ELSE r.res.code = 400 /\ r.db = db
      ELSE IsInvalidTransition(r.res, db[o].status) /\ r.db = db

\* An order has made two transitions of the table
C1_Witness ==
  \E o \in Live : db[o].status = S("shipped") /\ db[o].cancelledAt = Null

\* C2: without overlap, a persisted status of delivered or cancelled never
\* changes again, whatever request follows.
C2_TerminalStays ==
  [][\A o \in DOMAIN db :
       db[o].status \in Terminal =>
         o \in DOMAIN db' /\ db'[o].status = db[o].status]_vars

\* A terminal order on which a later request (a soft DELETE) has acted
C2_Witness ==
  \E o \in DOMAIN db : db[o].status \in Terminal /\ db[o].isDeleted

\* C3 as stated: under any interleaving of the loads and saves of overlapping
\* PATCH, PUT and cancel requests, every change of a persisted status goes
\* from a status to one of its targets in the table.
C3_AsStated ==
  [][\A o \in DOMAIN db :
       db'[o].status # db[o].status => db'[o].status \in Table(db[o].status)]_vars

\* C4: without overlap, every persisted order has cancelledAt set iff
\* cancellationReason is set, and both set iff its status is cancelled.
C4_CancellationFields ==
  \A o \in DOMAIN db :
    /\ (db[o].cancelledAt # Null) <=> (db[o].cancellationReason # Null)
    /\ (db[o].cancelledAt # Null) <=> (db[o].status = S("cancelled"))
    /\ db[o].cancelledAt # Null => db[o].cancelledAt.t = "date"
    /\ db[o].cancellationReason # Null =>
         db[o].cancellationReason.t = "string" /\ db[o].cancellationReason.v # <<>>

\* An order cancelled by a PUT after the clock has advanced
C4_Witness ==
  \E o \in DOMAIN db :
    /\ db[o].status = S("cancelled")
    /\ db[o].cancellationReason = Str(S("Cancelled during update"))
    /\ db[o].cancelledAt = Date(2)

\* The save pending in slot p is that of a PATCH, PUT or cancel request, has
\* something to write, and is of an order that the save of another such
\* request has changed since slot p loaded it
Stale(p) ==
  /\ req[p].pc = "saving"
  /\ req[p].m.mod # {}
  /\ req[p].op \in {"patch", "put", "cancel"}
  /\ db[req[p].orderId] # req[p].loaded
  /\ db[req[p].orderId].isDeleted = req[p].loaded.isDeleted

\* C5 as stated: when two requests on one order both load it before either
\* saves, the save that happens second is answered 409 and writes nothing.
C5_AsStated ==
  \A p \in Procs :
    Stale(p) =>
      LET r == save(db, req[p].op, req[p].orderId, req[p].m) IN
      r.res.code = 409 /\ r.db = db

\* The fields of the status lifecycle of a stored order
Lifecycle(doc) == <<doc.status, doc.cancelledAt, doc.cancellationReason>>

\* The response is one of the two 400s of the cancel endpoint's guards
IsCancelRefusal(res, current) ==
  /\ res.code = 400
  /\ current = S("cancelled") => res.message = "Order is already cancelled"
  /\ current = S("delivered") => res.message = "Cannot cancel a delivered order"

\* C6 as stated: for a delivered or cancelled order, every PATCH or PUT that
\* requests a status, the current one included, and every cancel request is
\* answered with a 400.
C6_AsStated ==
  \A o \in Live :
    db[o].status \in Terminal =>
      /\ \A op \in {"patch", "put"}, s \in Statuses : \A body \in Requesting(s) :
           UpdateResult(op, o, body).res.code = 400
      /\ \A body \in CancelBodies :
           CancelResult(db, clock, o, body).res.code = 400

\* What the routes do for a delivered or cancelled order (C6's case): every
\* PATCH that requests a status, every PUT that requests a status other than
\* the current one, and every cancel request is answered with a 400 (for PATCH
\* and PUT the one carrying an empty allowedTransitions) and persists nothing;
\* a PUT that requests the current status is not refused: it succeeds when
\* its quantity passes validation, and the status is unchanged.
TerminalRefuses ==
  \A o \in Live :
    db[o].status \in Terminal =>
      /\ \A op \in {"patch", "put"}, s \in Statuses : \A body \in Requesting(s) :
           LET r == UpdateResult(op, o, body) IN
           IF op = "put" /\ s = db[o].status
           THEN /\ r.res.code = 200 <=> QuantityPasses(op, body)
                /\ Lifecycle(r.db[o]) = Lifecycle(db[o])
           ELSE /\ IsInvalidTransition(r.res, db[o].status)
                /\ r.res.data.allowedTransitions = <<>>
                /\ r.db = db
      /\ \A body \in CancelBodies :
           LET r == CancelResult(db, clock, o, body) IN
           IsCancelRefusal(r.res, db[o].status) /\ r.db = db

\* C7 as stated: a PATCH or PUT whose requested status is the order's current
\* status succeeds with 200 and leaves status, cancelledAt and
\* cancellationReason as they were (checked for payloads carrying the status
\* alone).
C7_AsStated ==
  \A o \in Live, op \in {"patch", "put"} :
    \A body \in Requesting(db[o].status) :
      body.quantity = Undef =>
        LET r == UpdateResult(op, o, body) IN
        r.res.code = 200 /\ Lifecycle(r.db[o]) = Lifecycle(db[o])

\* The 400 of the cancel endpoint for an order already cancelled, carrying
\* the cancellation metadata of doc
IsAlreadyCancelled(res, doc) ==
  /\ res.code = 400
  /\ res.message = "Order is already cancelled"
  /\ res.data.cancelledAt = doc.cancelledAt
  /\ res.data.cancellationReason = doc.cancellationReason

\* C8: two cancel requests in a row on a pending order: the first succeeds
\* and persists status cancelled; the second, at any later time and with any
\* reason, is answered 400 "Order is already cancelled" with the cancelledAt
\* and cancellationReason the first wrote, and persists nothing.  The same
\* answer is given for every order found cancelled.
C8_CancelTwice ==
  \A o \in Live :
    /\ db[o].status = S("pending") =>
         \A b1 \in CancelBodies, b2 \in CancelBodies, t2 \in clock..MaxClock :
           LET first == CancelResult(db, clock, o, b1)
               second == CancelResult(first.db, t2, o, b2)
           IN /\ first.res.code = 200
              /\ first.db[o].status = S("cancelled")
              /\ first.db[o].cancelledAt = Date(clock)
              /\ IsAlreadyCancelled(second.res, first.db[o])
              /\ second.db = first.db
    /\ db[o].status = S("cancelled") =>
         \A b2 \in CancelBodies :
           LET second == CancelResult(db, clock, o, b2) IN
           IsAlreadyCancelled(second.res, db[o]) /\ second.db = db

\* An order cancelled through the cancel endpoint at an earlier time
C8_Witness ==
  \E o \in Live :
    /\ db[o].status = S("cancelled")
    /\ db[o].cancellationReason = Str(S("Cancelled by customer"))
    /\ db[o].cancelledAt.v < clock

\* C9: for every current status the cancel endpoint succeeds, persisting
\* status cancelled, exactly when cancelled is in ALLOWED_TRANSITIONS of the
\* current status, that is for pending, processing and shipped; for delivered
\* and for cancelled it answers 400 and leaves the order unchanged.
C9_CancelFollowsTable ==
  \A o \in Live, body \in CancelBodies :
    LET r == CancelResult(db, clock, o, body)
        cancellable == S("cancelled") \in Range(ALLOWED_TRANSITIONS(db[o].status))
    IN /\ cancellable <=> db[o].status \in {S("pending"), S("processing"), S("shipped")}
       /\ IF cancellable
          THEN r.res.code = 200 /\ r.db[o].status = S("cancelled")
          ELSE IsCancelRefusal(r.res, db[o].status) /\ r.db = db

\* A shipped order, which the cancel endpoint cancels
C9_Witness ==
  \E o \in Live :
    /\ db[o].status = S("shipped")
    /\ \E body \in CancelBodies :
         CancelResult(db, clock, o, body).db[o].status = S("cancelled")

\* A reason was supplied and is not blank
NonBlank(x) == x.t = "string" /\ \E i \in DOMAIN x.v : ~IsSpace(x.v[i])

\* The reason the specification prescribes for a supplied value and a default
Prescribed(x, default) == IF NonBlank(x) THEN Str(Trim(x.v)) ELSE Str(S(default))

\* C10 as stated: every successful transition into cancelled persists as
\* cancellationReason the supplied reason trimmed when it is not blank, and
\* otherwise 'Cancelled by user' for PATCH and PUT, 'Cancelled by customer'
\* for the cancel endpoint.
C10_AsStated ==
  \A o \in Live :
    db[o].status # S("cancelled") =>
      /\ \A op \in {"patch", "put"} : \A body \in Requesting(S("cancelled")) :
           LET r == UpdateResult(op, o, body) IN
           r.res.code = 200 =>
             r.db[o].cancellationReason =
               Prescribed(body.cancellationReason, "Cancelled by user")
      /\ \A body \in CancelBodies :
           LET r == CancelResult(db, clock, o, body) IN
           r.res.code = 200 =>
             r.db[o].cancellationReason = Prescribed(body.reason, "Cancelled by customer")

\* C11 as stated: for every live order and every update payload, PUT and
\* PATCH give the same outcome (both succeed or both fail) and leave the same
\* persisted order.
C11_AsStated ==
  \A o \in Live, body \in UpdateBodies :
    LET viaPatch == PatchResult(db, clock, o, body)
        viaPut == PutResult(db, clock, o, body)
    IN /\ (viaPatch.res.code = 200) <=> (viaPut.res.code = 200)
       /\ viaPatch.db[o] = viaPut.db[o]

\* C12 as stated: every successful create persists an order with status
\* pending whatever status the payload carries, with cancelledAt and
\* cancellationReason null, isDeleted false, and quantity 1 when the payload
\* has no quantity; for POST / and for the older POST /orders.
C12_AsStated ==
  /\ \A id \in OrderIds, body \in CreateBodies :
       LET r == CreateResult(db, id, body) IN
       r.res.code = 201 =>
         /\ r.db[id].status = S("pending")
         /\ r.db[id].cancelledAt = Null /\ r.db[id].cancellationReason = Null
         /\ ~r.db[id].isDeleted
         /\ body.quantity = Undef => r.db[id].quantity = 1
  /\ \A body \in SuppliedCreateBodies :
       LET r == CreateSuppliedResult(db, body) IN
       r.res.code = 201 =>
         /\ r.db[body.orderId].status = S("pending")
         /\ r.db[body.orderId].cancelledAt = Null
         /\ r.db[body.orderId].cancellationReason = Null
         /\ ~r.db[body.orderId].isDeleted
         /\ r.db[body.orderId].quantity = 1

\* What POST / does (C12's case for the route with the generated orderId):
\* every successful create persists status pending, the cancellation fields
\* null, isDeleted false, and quantity 1 for a payload without one.
CreateForcesPending ==
  \A id \in OrderIds, body \in CreateBodies :
    LET r == CreateResult(db, id, body) IN
    r.res.code = 201 =>
      /\ r.db[id] = NewOrder(id, r.db[id].quantity)
      /\ body.quantity = Undef => r.db[id].quantity = 1

\* The order o is among the orders a list response returns
Listed(res, o) == \E i \in DOMAIN res.data.orders : res.data.orders[i].orderId = o

\* What every request finds of a soft-deleted order o: GET by orderId is
\* answered 404, no list query returns it or counts it, and PATCH, PUT,
\* cancel and DELETE are answered 404 and write nothing
Gone(o) ==
  /\ getOne(db, o) = NotFound
  /\ \A query \in ListQueries :
       LET res == list(db, query) IN
       /\ ~Listed(res, o)
       /\ res.data.total <= Cardinality(Live)
  /\ \A op \in {"patch", "put"}, body \in UpdateBodies :
       UpdateResult(op, o, body) = Result(db, NotFound)
  /\ \A body \in CancelBodies : CancelResult(db, clock, o, body) = Result(db, NotFound)
  /\ DeleteResult(db, o) = Result(db, NotFound)

\* C13: once an order is soft-deleted, at every later point GET by orderId
\* is answered 404, the list neither returns nor counts it, PATCH, PUT, cancel
\* and DELETE on it are answered 404 and write nothing, and the stored record
\* never changes again.
C13_DeletedIsGone ==
  /\ [](\A o \in DOMAIN db : db[o].isDeleted => Gone(o))
  /\ [][\A o \in DOMAIN db :
          db[o].isDeleted => o \in DOMAIN db' /\ db'[o] = db[o]]_vars

\* A soft-deleted order beside which nothing is live, after further requests
C13_Witness ==
  /\ \E o \in DOMAIN db : db[o].isDeleted /\ db[o].status = S("processing")
  /\ Live = {}
  /\ clock = MaxClock

\* C14: under any interleaving of overlapping creates, through the route that
\* generates the orderId and through the one that looks a supplied orderId up
\* before it saves, every create answered 201 has its own stored order: the
\* order stored under the orderId it returned is the one it saved, and no
\* other create answered 201 returned that orderId.
C14_UniqueOrderIds ==
  \A p \in Procs :
    req[p].pc = "created" =>
      /\ req[p].orderId \in DOMAIN db
      /\ db[req[p].orderId] = req[p].doc
      /\ \A q \in Procs \ {p} :
           req[q].pc = "created" => req[q].orderId # req[p].orderId

\* Two creates passed the lookup for one orderId; one has saved, the other
\* is about to
C14_Witness ==
  \E p \in Procs, q \in Procs :
    /\ req[p].pc = "created" /\ req[q].pc = "inserting"
    /\ req[p].orderId = req[q].orderId
    /\ req[p].doc # req[q].doc

\* C15: a create whose payload passes validation and whose generated orderId
\* is that of a stored order (soft-deleted or not) is answered with the 409
\* that asks to try again, and the collection stays exactly as it was.
C15_DuplicateKey ==
  \A id \in DOMAIN db, body \in CreateBodies :
    JoiQuantity(body.quantity).ok =>
      LET r == CreateResult(db, id, body) IN
      /\ r.res.code = 409
      /\ r.res.message = "Order creation failed. Please try again."
      /\ r.db = db

\* A stored order that has moved on since its creation, whose orderId a
\* create generates again
C15_Witness ==
  \E o \in DOMAIN db :
    /\ db[o].status = S("processing") /\ db[o].quantity = 3
    /\ CreateResult(db, o, [quantity |-> Num(3), status |-> Undef]).res.code = 409

\* C16: no PATCH, PUT, cancel or DELETE, whatever its payload (one carrying an
\* orderId included), alters the orderId stored for an order: in every step
\* every stored order is still stored, with the orderId it had.
C16_OrderIdFixed ==
  [][\A o \in DOMAIN db :
       o \in DOMAIN db' /\ db'[o].orderId = db[o].orderId]_vars

\* An order that has been updated, on which a PATCH carrying another orderId
\* succeeds
C16_Witness ==
  \E o \in Live :
    /\ db[o].status = S("shipped") /\ db[o].quantity = 3
    /\ \E body \in UpdateBodies :
         /\ body.orderId # Undef
         /\ PatchResult(db, clock, o, body).res.code = 200

\* A request was answered with a failure and the collection is as it was
FailsClean(r) == r.res.code >= 400 => r.db = db

\* C17: every request answered with a failure (400, 404, 409, 500), through
\* any route and with any payload, leaves the collection exactly as it was,
\* also when the handler had assigned the status or another field to the
\* loaded order before it failed.
C17_NoPartialWrite ==
  /\ \A id \in OrderIds, body \in CreateBodies : FailsClean(CreateResult(db, id, body))
  /\ \A body \in SuppliedCreateBodies : FailsClean(CreateSuppliedResult(db, body))
  /\ \A o \in OrderIds :
       /\ \A op \in {"patch", "put"}, body \in UpdateBodies :
            FailsClean(UpdateResult(op, o, body))
       /\ \A body \in UpdateBodies : FailsClean(PutRoutesResult(db, o, body))
       /\ \A body \in CancelBodies : FailsClean(CancelResult(db, clock, o, body))
       /\ FailsClean(DeleteResult(db, o))

\* A PATCH whose transition is accepted and assigned and whose quantity then
\* fails at save, and an older PUT refused after it assigned the status
C17_Witness ==
  \E o \in Live :
    /\ db[o].status = S("pending") /\ db[o].quantity = 3
    /\ \E body \in Requesting(S("processing")) :
         body.quantity = Num(0) /\ PatchResult(db, clock, o, body).res.code = 400
    /\ \E body \in Requesting(S("shipped")) :
         body.quantity = Num(0) /\ PutRoutesResult(db, o, body).res.code = 400

\* The update payloads that carry none of the updatable fields
EmptyUpdates ==
  {b \in UpdateBodies :
     b.status = Undef /\ b.cancellationReason = Undef /\ b.quantity = Undef}

\* C18 as stated: a PATCH or PUT whose payload carries none of the updatable
\* fields is answered 400 and the order is not saved.
C18_AsStated ==
  \A o \in Live, op \in {"patch", "put"}, body \in EmptyUpdates :
    LET r == UpdateResult(op, o, body) IN
    r.res.code = 400 /\ r.db = db

\* The quantity of a payload fails the field validation (an integer from 1
\* to 1000)
QuantityInvalid(body) == body.quantity # Undef /\ ~JoiQuantity(body.quantity).ok

\* C19 as stated: the payload is validated before the order is loaded and
\* before anything is decided or persisted, so a create, PATCH or PUT whose
\* payload fails field validation is answered with the 400 of the validation
\* whatever the store holds: whether or not the orderId addressed is stored,
\* and whatever transition the payload requests.
C19_AsStated ==
  /\ \A id \in OrderIds, body \in CreateBodies :
       QuantityInvalid(body) =>
         CreateResult(db, id, body) =
           Result(db, Resp(400, FALSE, "Validation failed", NoData))
  /\ \A o \in OrderIds, op \in {"patch", "put"}, body \in UpdateBodies :
       QuantityInvalid(body) =>
         LET r == UpdateResult(op, o, body) IN
         r.res.code = 400 /\ r.res.data = NoData /\ r.db = db

\* C20: a PATCH or PUT whose payload has no status leaves the order's status,
\* cancelledAt and cancellationReason as they were, and every other field
\* absent from the payload keeps its persisted value; a valid quantity it
\* does carry is persisted.
C20_AbsentMeansUnchanged ==
  \A o \in Live, op \in {"patch", "put"}, body \in UpdateBodies :
    body.status = Undef =>
      LET r == UpdateResult(op, o, body) IN
      /\ Lifecycle(r.db[o]) = Lifecycle(db[o])
      /\ body.quantity = Undef => r.db = db /\ r.res.code = 200
      /\ body.quantity = Num(3) => r.res.code = 200 /\ r.db[o].quantity = 3
      /\ r.db[o] = [db[o] EXCEPT !.quantity = r.db[o].quantity]

\* A cancelled order of quantity other than the default, which a PUT
\* without a status updates
C20_Witness ==
  \E o \in Live :
    /\ db[o].status = S("cancelled") /\ db[o].cancelledAt # Null /\ db[o].quantity = 3
    /\ \E body \in UpdateBodies :
         /\ body.status = Undef /\ body.quantity = Undef
         /\ PutResult(db, clock, o, body).res.code = 200

\* The paging a list endpoint uses is within the bounds: page at least 1,
\* limit within 1..100, skip not negative, page 1 and limit 10 for absent
\* values, limit 500 taken as 100 and page 0 as 1
PagingBounded(query, paging) ==
  /\ paging.page >= 1
  /\ paging.limit \in 1..100
  /\ paging.skip >= 0
  /\ query.page = Undef => paging.page = 1
  /\ query.limit = Undef => paging.limit = 10
  /\ query.limit = Str(<<"5", "0", "0">>) => paging.limit = 100
  /\ query.page = Str(<<"0">>) => paging.page = 1

\* C21 as stated: for every page and limit query value (absent, non-numeric,
\* zero, negative, above 100) the list endpoint, GET / and the older
\* GET /orders alike, uses a page of at least 1 and a limit within 1..100,
\* page 1 and limit 10 for absent values, limit 500 as 100 and page 0 as 1,
\* and never a negative skip; it answers 200 with that page.
C21_AsStated ==
  \A p \in Procs :
    (req[p].pc = "answered" /\ req[p].op = "list") =>
      /\ PagingBounded(req[p].query, req[p].paging)
      /\ req[p].res.code = 200
      /\ req[p].res.data.page = req[p].paging.page

\* What GET / does (C21's case for the route that clamps): the paging is
\* within the bounds for every query, the response reports that page and
\* limit, and it returns at most limit orders.
ListClampsPaging ==
  \A query \in RawListQueries :
    LET paging == pagination(query)
        res == listRaw(db, query)
    IN /\ PagingBounded(query, paging)
       /\ res.code = 200
       /\ res.data.page = paging.page /\ res.data.limit = paging.limit
       /\ Len(res.data.orders) <= paging.limit

\* The fields of a create payload that break the rules for the text fields
\* and the quantity: a trimmed customerName outside 2..100 characters, a phone
\* with a character outside digits, whitespace and -+() or with fewer than
\* 10 digits, a trimmed product outside 2..200 characters, a quantity
\* outside 1..1000
InvalidFields(body) ==
  When(Missing(body.customerName) \/ Len(Trim(body.customerName.v)) \notin NameMin..NameMax,
       "customerName")
  \cup When(Missing(body.phone) \/ ~PhoneValid(body.phone.v), "phone")
  \cup When(Missing(body.product) \/ Len(Trim(body.product.v)) \notin NameMin..ProductMax,
            "product")
  \cup When(body.quantity # Undef /\ body.quantity.v \notin QuantityMin..QuantityMax,
            "quantity")

\* The field a message of validateCreateInput is about
MessageField(message) ==
  CASE message = "Customer name must be at least 2 characters" -> "customerName"
    [] message = "Valid phone number is required (min 10 digits)" -> "phone"
    [] message = "Product name must be at least 2 characters" -> "product"
    [] message = "Quantity must be between 1 and 1000" -> "quantity"

\* The fields the error list of a 400 names in its entries' field key, none
\* when the response has no list
FieldsNamed(res) ==
  IF res.code # 400 \/ res.data = NoData THEN {}
  ELSE {e.field : e \in res.data.errors}

\* The fields the messages of the error list of a 400 are about
MessagesNamed(res) ==
  IF res.code # 400 \/ res.data = NoData THEN {}
  ELSE {MessageField(e) : e \in res.data.errors}

\* The fields the 400 of a create route names: by its messages for
\* POST /api/orders, in its entries' field key for the others
Named(route, res) ==
  IF route = "POST /api/orders" THEN MessagesNamed(res) ELSE FieldsNamed(res)

\* C22 as stated: a create payload with several invalid fields (any subset of
\* customerName, phone, product, quantity) is answered 400 with an error list
\* that has an entry for every invalid field, naming it, by POST /,
\* by POST /api/orders and by the older POST /orders.
C22_AsStated ==
  \A p \in Procs :
    (req[p].pc = "answered" /\ req[p].op = "create") =>
      InvalidFields(req[p].body) \subseteq Named(req[p].route, req[p].res)

\* A create payload with valid fields, but for the field f of body
Only(body, f) ==
  [[customerName |-> Str(<<"A", "l">>),
    phone |-> Str(<<"1", "2", "3", "-", "4", "5", "6", "-", "7", "8", "9", "0">>),
    product |-> Str(<<"P", "e", "n">>),
    quantity |-> Undef] EXCEPT ![f] = body[f]]

\* What the two input validators do (C22's case without the older router):
\* validateCreateOrder and validateCreateInput are not fail-fast, a field
\* either of them reports when it is the only invalid one is reported too
\* whatever the other fields are.
ValidatorsCollectAll ==
  \A id \in OrderIds, body \in CreateTextBodies :
    \A f \in {"customerName", "phone", "product", "quantity"} :
      /\ f \in FieldsNamed(createOrder(db, id, Only(body, f)).res) =>
           f \in FieldsNamed(createOrder(db, id, body).res)
      /\ f \in MessagesNamed(createApi(db, id, Only(body, f)).res) =>
           f \in MessagesNamed(createApi(db, id, body).res)

\* The response is the 400 of the input validator (the handler has not run)
RejectedByValidator(res) == res.code = 400 /\ res.message = "Validation failed"

\* C23 as stated: a create whose phone has fewer than 10 digits once the
\* non-digits are stripped, or a character outside digits, whitespace and
\* -+(), is rejected by the input validator (validateCreateOrder of POST /,
\* validateCreateInput of POST /api/orders) with an entry for phone, before
\* save is called; a phone of allowed characters with 10 digits or more is
\* not reported.
C23_AsStated ==
  \A p \in Procs :
    (/\ req[p].pc = "answered" /\ req[p].op = "create"
     /\ req[p].route \in {"POST /", "POST /api/orders"}
     /\ req[p].body.phone # Undef) =>
      IF PhoneValid(req[p].body.phone.v)
      THEN "phone" \notin Named(req[p].route, req[p].res)
      ELSE /\ RejectedByValidator(req[p].res)
           /\ "phone" \in Named(req[p].route, req[p].res)

\* What the two routes do with a phone (C23's case less the claim that the
\* input validator is the one to reject): validateCreateInput reports exactly
\* the phones that are not valid; POST / answers 400 to every phone that is
\* not valid and leaves the collection as it was, validateCreateOrder
\* reporting those with a character outside the set or with fewer than 10
\* characters, the schema validator at save the others.
PhoneRejected ==
  \A id \in OrderIds, body \in CreateTextBodies :
    body.phone # Undef =>
      LET viaJoi == createOrder(db, id, body)
          viaApi == createApi(db, id, body)
      IN /\ "phone" \in MessagesNamed(viaApi.res) <=> ~PhoneValid(body.phone.v)
         /\ ~PhoneValid(body.phone.v) => viaJoi.res.code = 400 /\ viaJoi.db = db
         /\ "phone" \in FieldsNamed(viaJoi.res) <=>
              ~PhonePattern(body.phone.v) \/ Len(body.phone.v) < PhoneDigits

\* The trimmed length of a payload string, 0 when it is absent
TrimmedLength(x) == IF Missing(x) THEN 0 ELSE Len(Trim(x.v))

\* The rules of C24 for the outcome r of a create with payload body on the
\* collection store: success only with a trimmed customerName of 2..100 and a
\* trimmed product of 2..200 characters; a customerName of 1 character is
\* answered 400 and nothing is persisted; a customerName of 2 characters in
\* an otherwise valid payload succeeds; a customerName of more than 100
\* characters is rejected
LengthRules(store, id, body, r) ==
  /\ r.res.code = 201 =>
       /\ TrimmedLength(body.customerName) \in NameMin..NameMax
       /\ TrimmedLength(body.product) \in NameMin..ProductMax
  /\ TrimmedLength(body.customerName) = 1 => r.res.code = 400 /\ r.db = store
  /\ (TrimmedLength(body.customerName) = 2 /\ InvalidFields(body) = {}
        /\ id \notin DOMAIN store) =>
       r.res.code = 201 /\ r.db[id].customerName = Trim(body.customerName.v)
  /\ TrimmedLength(body.customerName) > NameMax => r.res.code # 201 /\ r.db = store

\* C24 as stated: a create succeeds only if the trimmed customerName has
\* 2..100 characters and the trimmed product 2..200; a customerName of 1
\* character fails with 400 and nothing is persisted, one of 2 characters
\* succeeds, one of more than 100 characters is rejected, in POST / and in
\* POST /api/orders.
C24_AsStated ==
  \A p \in Procs :
    (/\ req[p].pc = "answered" /\ req[p].op = "create"
     /\ req[p].route \in {"POST /", "POST /api/orders"}) =>
      LengthRules(req[p].before, req[p].id, req[p].body, Result(db, req[p].res))

\* What POST / does (C24's case for the route behind validateCreateOrder):
\* the length rules hold for every payload.
CreateChecksLengths ==
  \A id \in OrderIds, body \in CreateTextBodies :
    LengthRules(db, id, body, createOrder(db, id, body))

\* The outcomes of the PATCH, PUT and cancel requests on the live order o
\* with the payloads of updates and cancels that are answered 200 and leave o
\* with another status than it has
ChangesWith(store, now, o, updates, cancels) ==
  {r.db : r \in {r \in {PatchResult(store, now, o, body) : body \in updates}
                        \cup {PutResult(store, now, o, body) : body \in updates}
                        \cup {CancelResult(store, now, o, body) : body \in cancels} :
                   r.res.code = 200 /\ r.db[o].status # store[o].status}}

\* The collections a successful PATCH, PUT or cancel of the live order o can
\* leave, with a status other than the one o has
StatusChanges(store, now, o) == ChangesWith(store, now, o, UpdateBodies, CancelBodies)

\* The same for the payloads that carry a status and nothing else (PATCH,
\* PUT) or nothing at all (cancel)
PlainChanges(store, now, o) ==
  ChangesWith(store, now, o,
              {b \in UpdateBodies : b.quantity = Undef /\ b.cancellationReason = Undef
                                      /\ b.orderId = Undef},
              {b \in CancelBodies : b.reason = Undef /\ b.orderId = Undef})

\* Every sequence of successful status changes of o that starts with length
\* changes made and the statuses visited behind it stays within 3 changes
\* and never returns to a status; o can make no further change, whatever the
\* payload, exactly when it is delivered or cancelled.  (The sequences are
\* followed through the payloads that carry a status and nothing else.)
RECURSIVE ChainsEnd(_, _, _, _, _)
ChainsEnd(store, now, o, visited, length) ==
  LET next == StatusChanges(store, now, o) IN
  /\ length <= 3
  /\ \A n \in next : n[o].status \notin visited
  /\ next = {} <=> store[o].status \in Terminal
  /\ \A n \in PlainChanges(store, now, o) :
       ChainsEnd(n, now, o, visited \cup {n[o].status}, length + 1)

\* The number of changes in the longest sequence of successful status
\* changes of o, counted up to fuel
RECURSIVE Longest(_, _, _, _)
Longest(store, now, o, fuel) ==
  LET next == PlainChanges(store, now, o) IN
  IF fuel = 0 \/ next = {} THEN 0
  ELSE 1 + (CHOOSE k \in 0..fuel :
              /\ \E n \in next : Longest(n, now, o, fuel - 1) = k
              /\ \A n \in next : Longest(n, now, o, fuel - 1) <= k)

\* The place of a status in the lifecycle
Rank(status) ==
  CASE status = S("pending") -> 0
    [] status = S("processing") -> 1
    [] status = S("shipped") -> 2
    [] status \in Terminal -> 3

StatusOnly == {b \in UpdateBodies : Truthy(b.status) /\ b.quantity = Undef}

\* The older PUT /orders/:orderId accepts the payload on the live order o and
\* persists another status than o has
FourStateAccepts(o, body) ==
  LET r == PutRoutesResult(db, o, body) IN
  r.res.code = 200 /\ r.db[o].status # db[o].status

\* PATCH and PUT of the 5-state routes accept the payload on o and persist
\* the status it requests
FiveStateAccepts(o, body) ==
  \A op \in {"patch", "put"} :
    LET r == UpdateResult(op, o, body) IN
    r.res.code = 200 /\ r.db[o].status = body.status.v

\* C26 as stated: the 4-state table is a subset of the 5-state table, every
\* status change the older PUT /orders/:orderId accepts on an order is
\* accepted by PATCH and PUT of the 5-state routes from the same status.
C26_AsStated ==
  \A o \in Live, body \in StatusOnly :
    FourStateAccepts(o, body) => FiveStateAccepts(o, body)

\* What the two tables share (C26's case less the one pair): every status
\* change the older PUT accepts, other than pending to shipped, is accepted
\* by PATCH and PUT of the 5-state routes.
FourStateWithinButShipped ==
  \A o \in Live, body \in StatusOnly :
    (FourStateAccepts(o, body)
       /\ ~(db[o].status = S("pending") /\ body.status.v = S("shipped"))) =>
      FiveStateAccepts(o, body)

\* The texts a 500 carries in place of the error's own message
Generic == {"Internal Server Error", "Internal server error"}

\* The 500 res, if it is one, of an error boundary to err under NODE_ENV env
\* carries err.message in development mode and a generic text in any other
Suppressed(err, env, res) ==
  res.code = 500 =>
    IF env = Str(S("development"))
    THEN res.message = err.message \/ (err.message = "" /\ res.message \in Generic)
    ELSE res.message \in Generic

\* C27 as stated: a request that fails with an unexpected error is answered
\* by the error boundary (errorHandler, the error middleware of the
\* serverless app, the catch of the older router) with the collection as it
\* was and a 500 whose message is err.message only in development mode; in
\* production, in test and with NODE_ENV unset it is the generic text.
C27_AsStated ==
  \A p \in Procs :
    (req[p].pc = "answered" /\ req[p].op = "error") =>
      Suppressed(req[p].err, req[p].env, req[p].res)

\* What the two error middlewares do (C27's case with production as the
\* only mode that suppresses): the message of a 500 is generic in production,
\* and err.message, when there is one, in every other mode.
SuppressedInProduction ==
  \A err \in ErrorInputs, env \in NodeEnvs :
    \A res \in {Result(db, errorHandler(err, env)).res,
                Result(db, errorMiddleware(err, env)).res} :
      res.code = 500 =>
        IF env = Str(S("production")) THEN res.message \in Generic
        ELSE res.message = err.message \/ (err.message = "" /\ res.message \in Generic)

\* The create payloads that differ from a valid one in the customerName or
\* in the phone
NamePhoneBodies ==
  {b \in CreateTextBodies :
     /\ b.product = Str(<<"P", "e", "n">>) /\ b.quantity = Undef
     /\ \/ b.customerName = Str(<<"A", "l">>)
        \/ b.phone = Str(<<"1", "2", "3", "-", "4", "5", "6", "-", "7", "8", "9", "0">>)}

\* The list queries for the first page of 10, with every status filter
FirstPages == {query \in ListQueries : query.page = 1 /\ query.limit = 10}

\* The list queries with the same value for page and limit
PagedQueries == {query \in AnsweredListQueries : query.page = query.limit}

\* res is the envelope { success, message, data } sent with the status code,
\* success being true exactly for a 2xx status
Envelope(res) ==
  /\ DOMAIN res = {"code", "success", "message", "data"}
  /\ res.success \in BOOLEAN
  /\ res.success <=> res.code \in 200..299

\* The response, in this state, to every update, cancel and delete of every
\* orderId, to every read, to the list queries, to every create, to every error
\* passed to errorHandler in every mode, and of the health check, is an
\* envelope
EveryEnvelope ==
  /\ \A o \in OrderIds :
       /\ \A body \in UpdateBodies :
            /\ Envelope(PatchResult(db, clock, o, body).res)
            /\ Envelope(PutResult(db, clock, o, body).res)
       /\ \A body \in CancelBodies : Envelope(CancelResult(db, clock, o, body).res)
       /\ Envelope(DeleteResult(db, o).res)
       /\ \A body \in CreateBodies : Envelope(CreateResult(db, o, body).res)
       /\ \A body \in NamePhoneBodies : Envelope(createOrder(db, o, body).res)
  /\ \A o \in RequestIds : Envelope(getOne(db, o))
  /\ \A query \in FirstPages : Envelope(list(db, query))
  /\ \A query \in PagedQueries : Envelope(listRaw(db, query))
  /\ \A err \in ErrorInputs, env \in NodeEnvs : Envelope(errorHandler(err, env))
  /\ \A isConnected \in BOOLEAN : Envelope(health(isConnected, clock))
  /\ Envelope(healthFailed)

\* C28: every response of every endpoint and of the error boundary is an
\* envelope with exactly the fields success, message and data, and success
\* is true if and only if the HTTP status is a 2xx one, whatever the requests
\* that were answered before it.
C28_Envelope == []EveryEnvelope

\* The status codes of the responses to the requests on stored and unknown
\* orders, to the creates and to the errors in this state
ResponseCodes ==
  {PatchResult(db, clock, o, body).res.code : o \in OrderIds, body \in UpdateBodies}
  \cup {getOne(db, o).code : o \in RequestIds}
  \cup {CreateResult(db, id, body).res.code : id \in OrderIds, body \in CreateBodies}
  \cup {errorHandler(err, env).code : err \in ErrorInputs, env \in NodeEnvs}
  \cup {health(isConnected, clock).code : isConnected \in BOOLEAN}

\* A stored live order, where the responses include successes (200) and
\* failures of every kind (400, 404, 409, 500, 503)
C28_Witness ==
  /\ Live # {}
  /\ {200, 400, 404, 409, 500, 503} \subseteq ResponseCodes

\* C29 as stated: under any interleaving of the loads and saves of
\* overlapping PATCH, PUT and cancel requests on one order, every persisted
\* order has cancelledAt and cancellationReason set if and only if its
\* status is cancelled.
C29_AsStated ==
  \A o \in DOMAIN db :
    /\ (db[o].cancelledAt # Null) <=> (db[o].status = S("cancelled"))
    /\ (db[o].cancellationReason # Null) <=> (db[o].status = S("cancelled"))

\* C30 as stated: under any interleaving of a DELETE with overlapping PATCH,
\* PUT and cancel requests on the same order, once isDeleted is persisted as
\* true no later save changes the order's status or any other field, and
\* isDeleted is never written back to false.
C30_AsStated ==
  [][\A o \in DOMAIN db : db[o].isDeleted => db'[o] = db[o]]_vars

\* What the saves do keep (C30's second half): an order persisted with
\* isDeleted true is never written back to isDeleted false, a save sending
\* only the paths its handler modified.
DeletedStaysDeleted ==
  [][\A o \in DOMAIN db : db[o].isDeleted => db'[o].isDeleted]_vars

\* C31 as stated: over any interleaving of the invocations of the function,
\* those that start while a mongoose.connect is pending included,
\* mongoose.connect is called at most once.
C31_AsStated == mongoose.connects <= 1

\* What connectDB does (C31's case once a connect has succeeded): with the
\* handle cached no step calls mongoose.connect, and an invocation that
\* starts then runs the app with the cached handle at once.
CachedHandleReused ==
  [][cachedDb # Null =>
       /\ mongoose'.connects = mongoose.connects
       /\ cachedDb' = cachedDb
       /\ \A p \in Procs :
            (req[p].pc = "idle" /\ req'[p].pc # "idle") =>
              req'[p] = Invoked(cachedDb, Undef)]_vars

\* The invocation of slot p fails in this step: its catch answers 500
Fails(p) ==
  /\ req[p].pc \in {"idle", "connecting"}
  /\ req'[p].pc = "answered"
  /\ req'[p].res = ConnectionFailed

\* C32: a connectDB call that fails (mongoose.connect rejects, or MONGO_URI
\* is not set) leaves cachedDb as it was, null when no connect has succeeded,
\* and the invocation is answered 500; cachedDb takes a value only in a step
\* where a pending mongoose.connect resolves, and that value is the handle;
\* after a failure with MONGO_URI set and nothing cached, the next connectDB
\* call calls mongoose.connect again.
C32_FailureNotCached ==
  /\ [][\A p \in Procs :
          Fails(p) =>
            /\ cachedDb' = cachedDb
            /\ req'[p].handle = Null
            /\ (cachedDb' = Null /\ Truthy(mongoUri)) =>
                 connectDB(cachedDb', mongoUri').kind = "connect"]_vars
  /\ [][cachedDb' # cachedDb =>
          /\ cachedDb = Null /\ cachedDb' = Mongoose
          /\ mongoose'.readyState = Connected
          /\ \E p \in Procs :
               /\ req[p].pc = "connecting"
               /\ req'[p] = Invoked(Mongoose, Undef)]_vars

\* A connect was rejected and answered 500, a later call connected again and
\* its handle is cached
C32_Witness ==
  /\ mongoUri = Uri
  /\ cachedDb = Mongoose
  /\ mongoose.connects >= 2
  /\ \E p \in Procs : req[p].pc = "answered" /\ req[p].res = ConnectionFailed

\* The payload carries a quantity below 1 or above 1000
OutOfRange(quantity) ==
  quantity # Undef /\ quantity.v \notin QuantityMin..QuantityMax

\* The outcome r of a request on the collection db is a 400 that leaves every
\* stored order with its quantity
Refused(r) ==
  /\ r.res.code = 400
  /\ DOMAIN r.db = DOMAIN db
  /\ \A o \in DOMAIN db : r.db[o].quantity = db[o].quantity

\* The create payloads whose only invalid field is the quantity
BadQuantityBodies == {body \in CreateTextBodies : InvalidFields(body) = {"quantity"}}

\* C33 as stated: every persisted order has a quantity within 1..1000, and a
\* create or an update of a live order that carries a quantity below 1 or
\* above 1000 is answered 400 and changes no stored quantity, in every route
\* variant (PATCH and PUT of the 5-state routes, the older
\* PUT /orders/:orderId, POST /, POST /api/orders, the older POST /orders).
C33_AsStated ==
  /\ \A o \in DOMAIN db : db[o].quantity \in QuantityMin..QuantityMax
  /\ \A o \in Live, body \in UpdateBodies :
       OutOfRange(body.quantity) =>
         /\ Refused(PatchResult(db, clock, o, body))
         /\ Refused(PutResult(db, clock, o, body))
         /\ Refused(PutRoutesResult(db, o, body))
  /\ \A id \in OrderIds :
       /\ \A body \in CreateBodies :
            OutOfRange(body.quantity) => Refused(CreateResult(db, id, body))
       /\ \A body \in BadQuantityBodies :
            /\ Refused(createOrder(db, id, body))
            /\ Refused(createApi(db, id, body))
            /\ Refused(createRoutes(db, id, body))

\* What the 5-state routes do (C33's case for PATCH and the creates behind a
\* validator): every persisted quantity is within 1..1000, PATCH with a
\* quantity out of range is answered 400 and so are POST / and
\* POST /api/orders, no stored quantity changing; PUT ignores a quantity of 0
\* and refuses one above 1000.
QuantityWithin ==
  /\ \A o \in DOMAIN db : db[o].quantity \in QuantityMin..QuantityMax
  /\ \A o \in Live, body \in UpdateBodies :
       OutOfRange(body.quantity) =>
         /\ Refused(PatchResult(db, clock, o, body))
         /\ LET r == PutResult(db, clock, o, body) IN
            /\ r.db[o].quantity = db[o].quantity
            /\ body.quantity.v > QuantityMax => Refused(r)
  /\ \A id \in OrderIds :
       /\ \A body \in CreateBodies :
            OutOfRange(body.quantity) => Refused(CreateResult(db, id, body))
       /\ \A body \in BadQuantityBodies :
            /\ Refused(createOrder(db, id, body))
            /\ Refused(createApi(db, id, body))

\* Every order of the collection store has a status of enum
StatusesWithin(store, enum) == \A o \in DOMAIN store : store[o].status \in enum

\* No request of any route persists a status outside the enum of its schema:
\* PATCH, PUT, cancel and POST / under the 5-state enum; the older
\* PUT /orders/:orderId and the two POST /orders under the 4-state enum
NeverPersisted ==
  /\ StatusesWithin(db, Statuses)
  /\ \A o \in OrderIds :
       /\ \A body \in UpdateBodies :
            /\ StatusesWithin(PatchResult(db, clock, o, body).db, Statuses)
            /\ StatusesWithin(PutResult(db, clock, o, body).db, Statuses)
            /\ StatusesWithin(db, SuppliedStatuses) =>
                 StatusesWithin(PutRoutesResult(db, o, body).db, SuppliedStatuses)
       /\ \A body \in CancelBodies :
            StatusesWithin(CancelResult(db, clock, o, body).db, Statuses)
       /\ \A body \in CreateBodies :
            StatusesWithin(CreateResult(db, o, body).db, Statuses)
       /\ \A required \in BOOLEAN :
            StatusesWithin(db, SuppliedStatuses) =>
              StatusesWithin(createPlaced(db, o, required).db, SuppliedStatuses)
  /\ \A body \in SuppliedCreateBodies :
       StatusesWithin(db, SuppliedStatuses) =>
         StatusesWithin(CreateSuppliedResult(db, body).db, SuppliedStatuses)

\* C34 as stated: in every route variant every persisted status is in the
\* status enum of the Order model, a create or update that carries a value
\* outside the enum never persists it, and the status a create handler
\* assigns is in the enum: a create with the required fields and an orderId
\* not yet stored is answered 201 and persists that status.
C34_AsStated ==
  /\ NeverPersisted
  /\ \A id \in OrderIds \ DOMAIN db :
       /\ LET r == CreateResult(db, id, [quantity |-> Undef, status |-> Undef]) IN
          r.res.code = 201 /\ r.db[id].status \in Statuses
       /\ LET r == CreateSuppliedResult(db, [required |-> TRUE, orderId |-> id,
                                             status |-> Undef]) IN
          r.res.code = 201 /\ r.db[id].status \in SuppliedStatuses
       /\ LET r == createPlaced(db, id, TRUE) IN
          r.res.code = 201 /\ r.db[id].status \in SuppliedStatuses

CancellationPaths == {"status", "cancelledAt", "cancellationReason"}

\* The outcome r of a cancel of orderId o on the collection db: a 200 leaves
\* o cancelled and every other path of o and every other order as it was,
\* any other response leaves the collection as it was
CancelFrame(o, r) ==
  IF r.res.code = 200
  THEN /\ o \in DOMAIN db
       /\ DOMAIN r.db = DOMAIN db
       /\ r.db[o].status = S("cancelled")
       /\ \A q \in DOMAIN db :
            \A path \in DOMAIN db[q] :
              (q # o \/ path \notin CancellationPaths) => r.db[q][path] = db[q][path]
  ELSE r.db = db

Matching(query) ==
  {o \in DOMAIN db :
     /\ ~db[o].isDeleted
     /\ (query.status # Undef /\ query.status.v \in Statuses) =>
          db[o].status = query.status.v}

\* The number of orders on page page of total orders, limit to a page
PageLength(total, page, limit) ==
  LET rest == total - (page - 1) * limit IN
  IF rest <= 0 THEN 0 ELSE IF rest < limit THEN rest ELSE limit

\* The 200 res of a list route to query reports the live matching orders of
\* db: their number as total, ceil(total / limit) as totalPages, and as
\* orders those at positions (page-1)*limit .. page*limit-1 of the sorted
\* sequence, at most limit, none soft-deleted
PageOf(query, res) ==
  LET data == res.data
      sorted == Sorted(Matching(query))
  IN /\ res.code = 200
     /\ data.total = Cardinality(Matching(query))
     /\ data.totalPages * data.limit >= data.total
     /\ (data.totalPages - 1) * data.limit < data.total
     /\ data.total = 0 => data.totalPages = 0
     /\ Len(data.orders) = PageLength(data.total, data.page, data.limit)
     /\ Len(data.orders) <= data.limit
     /\ \A i \in DOMAIN data.orders :
          /\ data.orders[i] = db[sorted[(data.page - 1) * data.limit + i]]
          /\ ~data.orders[i].isDeleted

\* C37 as stated: for every collection and every page, limit and status
\* query, GET / and GET /api/orders report as total the number of non-deleted
\* orders matching the status filter, as totalPages ceil(total / limit), and
\* as orders the matching orders at positions (page-1)*limit .. page*limit-1
\* of the sorted sequence, at most limit and none soft-deleted.
C37_AsStated ==
  \A p \in Procs :
    (req[p].pc = "answered" /\ req[p].op = "page") =>
      PageOf(req[p].query, req[p].res)

\* What GET / does (C37's case for the route that filters on isDeleted): the
\* same statement for the exchanges of GET /.
ListPages ==
  \A p \in Procs :
    (req[p].pc = "answered" /\ req[p].op = "page" /\ req[p].route = "GET /") =>
      PageOf(req[p].query, req[p].res)

\* GET /api/orders on a collection with no soft-deleted order reports the
\* same as GET /.
ListApiOnLive ==
  \A p \in Procs :
    (/\ req[p].pc = "answered" /\ req[p].op = "page"
     /\ \A o \in DOMAIN db : ~db[o].isDeleted) =>
      PageOf(req[p].query, req[p].res)

\* C38: the HTTP server listens only after connectDB has succeeded: it starts
\* listening in a step where the pending connectDB resolves, and never while
\* startServer has not got past await connectDB(); when connectDB fails the
\* process exits with code 1 without having listened, and nothing happens
\* after the exit.
C38_ListenAfterConnect ==
  /\ [](process.pc \in {"loaded", "connecting"} =>
          ~server.listening /\ server.connections = 0)
  /\ [](process.exitCode = Num(1) =>
          /\ process.pc = "exited" /\ process.signals = 0
          /\ ~server.listening /\ server.connections = 0)
  /\ [][
         /\ (~server.listening /\ server'.listening) =>
            /\ process.pc = "connecting"
            /\ process'.pc = "running" /\ process'.exitCode = Null
         /\ (process.exitCode = Null /\ process'.exitCode = Num(1)) =>
            /\ process.pc = "connecting"
            /\ ~server'.listening
         /\ process.pc \in {"exited", "killed"} =>
            /\ server' = server
            /\ process' = process
       ]_vars

\* startServer has got past await connectDB() and the server, listening,
\* has accepted a connection
C38_Witness ==
  /\ process.pc = "running"
  /\ server.listening /\ server.connections > 0

\* C39: on SIGTERM or SIGINT the HTTP server stops accepting connections in
\* the step of the signal; the MongoDB connection starts to close only in
\* the step where the server, no longer listening and with no connection
\* left, runs its close callbacks; the process exits with code 0 only from a
\* callback, with the MongoDB connection closed and the HTTP server closed;
\* a second signal during the shutdown changes none of this.
C39_ShutdownOrder ==
  /\ [](process.signals > 0 => ~server.listening)
  /\ [](mongoose.readyState = Disconnecting =>
          ~server.listening /\ server.connections = 0)
  /\ [](process.exitCode = Num(0) =>
          /\ mongoose.readyState = Disconnected
          /\ ~server.listening /\ server.connections = 0
          /\ process.signals > 0)
  /\ [][
         /\ (mongoose.readyState = Connected /\ mongoose'.readyState # Connected) =>
            /\ ~server.listening /\ server.connections = 0
            /\ server.callbacks > 0 /\ server'.callbacks = 0
            /\ process'.closing > process.closing
         /\ (process.exitCode = Null /\ process'.exitCode = Num(0)) =>
            /\ process.closing > 0
            /\ mongoose.readyState = Disconnected
       ]_vars

\* The process has exited with code 0 after two signals
C39_Witness == process.exitCode = Num(0) /\ process.signals = 2

=============================================================================
